---- MODULE Spec2Model ----
(***************************************************************************)
(* Model of the linklocal backend: token service (src/src/utils/auth.ts), *)
(* authorization gate (src/src/middleware/auth.ts), request lifecycle     *)
(* (src/src/routes/services.ts, second module: routes/requests) and the   *)
(* feedback / rating aggregator (src/unnamed/part_000: routes/feedback).  *)
(*                                                                         *)
(* A call is a record calls[p]; its handler is cut at every storage        *)
(* operation (every await on prisma), so that one action is one storage   *)
(* operation together with the synchronous code that follows it.          *)
(***************************************************************************)
EXTENDS Integers, Sequences, FiniteSets, TLC

VARIABLES
    envKey,     \* process.env.JWT_SECRET_KEY: <<>> when unset, <<value>> when set
    now,        \* the clock, in seconds
    issued,     \* the token pairs handed to clients so far
    users,      \* table User:           id -> row
    services,   \* table Service:        id -> row
    requests,   \* table ServiceRequest: sequence of rows, id = index
    feedback,   \* table Feedback:       sequence of rows, in creation order
    calls       \* the calls being served: process -> call record

vars == <<envKey, now, issued, users, services, requests, feedback, calls>>

----------------------------------------------------------------------------
(* Bounds of the model *)

MaxRequests == 2        \* rows of ServiceRequest
MaxProcs == 2           \* calls served at the same time
MaxIssued == 2          \* token pairs handed out
MaxRated == 4           \* completed requests waiting for their feedback

----------------------------------------------------------------------------
(* The data *)

Customers == {"c1", "c2"}
Providers == {"p1", "p2"}
UserIds == Customers \cup Providers
ServiceIds == {"s1", "s2"}
Procs == 1..MaxProcs

Statuses == {"pending", "accepted", "declined", "completed", "cancelled"}

EmailOf(id) == id \o "@x"
PasswordOf(id) == "pw-" \o id
RoleOf(id) == IF id \in Customers THEN "customer" ELSE "provider"

\* Option values: <<>> is null / undefined, <<v>> is the value v.
Null == <<>>
Some(v) == <<v>>
IsNull(o) == o = <<>>
Val(o) == o[1]

----------------------------------------------------------------------------
(* Token Service: src/src/utils/auth.ts *)

DefaultSecret == "your-secret-key"
DefaultRefreshSecret == "your-refresh-secret-key"

\* JavaScript's (x || d) for an environment variable: unset and "" are falsy.
OrDefault(env, d) == IF IsNull(env) \/ env = Some("") THEN d ELSE Val(env)

JWT_SECRET == OrDefault(envKey, DefaultSecret)
JWT_REFRESH_SECRET == OrDefault(envKey, DefaultRefreshSecret)

AccessTtl == 900
RefreshTtl == 604800

\* jwt.sign(payload, secret, {expiresIn}): the token carries the payload, iat,
\* exp = iat + ttl, and a signature that only the same secret reproduces.
jwtSign(payload, secret, ttl, t) ==
    [userId |-> payload.userId, email |-> payload.email, role |-> payload.role,
     iat |-> t, exp |-> t + ttl, key |-> secret]

\* What a call of jwt.verify that throws yields in place of a payload.
Thrown == <<"throw", "JsonWebTokenError">>

\* A string that is a JWT: the three parts are there.
WellFormed(token) == DOMAIN token = {"userId", "email", "role", "iat", "exp", "key"}

\* jwt.verify that trusts every signature: only the form and exp are looked at.
jwtVerify_NoSignatureCheck(token, secret, t) ==
    IF WellFormed(token) /\ t < token.exp
    THEN Some([userId |-> token.userId, email |-> token.email, role |-> token.role])
    ELSE Thrown

\* jwt.verify that does not look at exp.
jwtVerify_NoExpiry(token, secret, t) ==
    IF WellFormed(token) /\ token.key = secret
    THEN Some([userId |-> token.userId, email |-> token.email, role |-> token.role])
    ELSE Thrown

\* jwt.verify(token, secret): throws unless the token is a JWT, the signature
\* matches the secret and the clock is before exp.
jwtVerify(token, secret, t) ==
    IF WellFormed(token) /\ token.key = secret /\ t < token.exp
    THEN Some([userId |-> token.userId, email |-> token.email, role |-> token.role])
    ELSE Thrown

\* try { return ... } catch (error) { return null }
OrNullIfThrown(r) == IF r = Thrown THEN Null ELSE r

\* bcrypt.hash / bcrypt.compare: an opaque one-way function of the password.
hashPassword(password) == <<"bcrypt", password>>

verifyPassword(password, hashedPassword) == hashedPassword = <<"bcrypt", password>>

generateAccessToken(user, t) ==
    jwtSign([userId |-> user.id, email |-> user.email, role |-> user.role],
            JWT_SECRET, AccessTtl, t)

generateRefreshToken(user, t) ==
    jwtSign([userId |-> user.id, email |-> user.email, role |-> user.role],
            JWT_REFRESH_SECRET, RefreshTtl, t)

generateTokenPair(user, t) ==
    [accessToken |-> generateAccessToken(user, t),
     refreshToken |-> generateRefreshToken(user, t),
     expiresIn |-> 15 * 60]

verifyAccessToken(token, t) == OrNullIfThrown(jwtVerify(token, JWT_SECRET, t))

verifyRefreshToken(token, t) == OrNullIfThrown(jwtVerify(token, JWT_REFRESH_SECRET, t))

----------------------------------------------------------------------------
(* Storage rows and lookups *)

NoUser ==
    [exists |-> FALSE, email |-> "", password |-> <<>>, role |-> "",
     is_active |-> FALSE, rating |-> 0, name |-> ""]

\* prisma.user.findUnique({where: {id}})
FindUser(id) == IF id \in DOMAIN users THEN users[id] ELSE NoUser

NoService ==
    [exists |-> FALSE, provider_id |-> "", is_active |-> FALSE,
     title |-> "", category_id |-> ""]

FindServiceRow(id) == IF id \in DOMAIN services THEN services[id] ELSE NoService

RequestIds == 1..MaxRequests

OpenStatuses == {"pending", "accepted"}

----------------------------------------------------------------------------
(* Calls *)

\* data holds what else the route reads of its request, body what else it
\* sends with its response; <<>> when there is nothing.
IdleCall ==
    [route |-> "", pc |-> "idle", header |-> Null, user |-> Null,
     email |-> "", password |-> "",
     sid |-> "", rid |-> 0, status |-> "", rating |-> 0,
     provider |-> "", newRating |-> 0, res |-> 0,
     data |-> Null, body |-> Null]

\* The response is sent and the handler returns.
Finish(c, code) == [c EXCEPT !.pc = "done", !.res = code, !.provider = "", !.newRating = 0]

InFlight(route) ==
    Cardinality({q \in Procs : calls[q].route = route /\ calls[q].pc \notin {"idle", "done"}})

\* The user a token was issued to, as login/register/refresh read it from the row.
TokenUser(id) == [id |-> id, email |-> FindUser(id).email, role |-> FindUser(id).role]

----------------------------------------------------------------------------
(* Authorization Gate: src/src/middleware/auth.ts *)

\* authenticateToken, first half (synchronous): header, token, verifyAccessToken.
authenticateTokenVerify(c) ==
    LET payload == IF IsNull(c.header) THEN Null
                   ELSE verifyAccessToken(Val(c.header), now)
    IN  IF IsNull(payload) THEN Finish(c, 401)
        ELSE [c EXCEPT !.pc = "auth", !.user = payload]

\* requireRole without the membership test: every authenticated role passes.
requireRole_AnyRole(allowedRoles, user) ==
    IF IsNull(user) THEN 401 ELSE 0

\* requireRole(allowedRoles): 0 stands for next().
requireRole(allowedRoles, user) ==
    IF IsNull(user) THEN 401
    ELSE IF Val(user).role \notin allowedRoles THEN 403
    ELSE 0

\* The middleware chain each route is registered with: the roles requireRole is
\* given, or Null when the route has no requireRole.
RouteRoles(route) ==
    CASE route = "POST /requests" -> Some({"customer"})
      [] route = "PATCH /requests/:id" -> Null
      [] route = "POST /feedback" -> Some({"customer"})
      [] route = "PATCH /services/:id" -> Some({"provider"})
      [] route = "DELETE /services/:id" -> Some({"provider"})
      [] route = "PATCH /profile" -> Null

\* The zod schema each handler parses its body with, first thing.
updateRequestStatusSchema(status) == status \in Statuses

\* The rating of a POST /feedback body, in tenths: c.rating is its whole part
\* and data, when there is one, holds the tenths after the point.
RatingTenths(c) == 10 * c.rating + (IF IsNull(c.data) THEN 0 ELSE Val(c.data).tenths)

\* rating: z.number().min(1).max(5), on the number in tenths.
submitFeedbackSchema(rating) == rating >= 10 /\ rating <= 50

\* title: z.string().min(3).optional(), category: z.string().min(1).optional()
updateServiceSchema(data) ==
    /\ data.title \notin {Some(""), Some("ab")}
    /\ data.category # Some("")

\* name: z.string().min(2).optional(); phone and location are strings too.
updateProfileSchema(body) == body.name # Some("a")

SchemaOk(c) ==
    CASE c.route = "POST /requests" -> TRUE
      [] c.route = "PATCH /requests/:id" -> updateRequestStatusSchema(c.status)
      [] c.route = "POST /feedback" -> submitFeedbackSchema(RatingTenths(c))
      [] c.route = "PATCH /services/:id" -> updateServiceSchema(Val(c.data))
      [] c.route = "DELETE /services/:id" -> TRUE
      [] c.route = "PATCH /profile" -> updateProfileSchema(Val(c.data))

FirstStep(route) ==
    CASE route = "POST /requests" -> "findService"
      [] route = "PATCH /requests/:id" -> "findRequest"
      [] route = "POST /feedback" -> "fbFindRequest"
      [] route = "PATCH /services/:id" -> "psFind"
      [] route = "DELETE /services/:id" -> "dsFind"
      [] route = "PATCH /profile" -> "profUpdate"

\* A call arrives; authenticateToken runs up to its await.
Receive(p, c) ==
    /\ calls[p].pc = "idle"
    /\ calls' = [calls EXCEPT ![p] = authenticateTokenVerify(c)]
    /\ UNCHANGED <<envKey, now, issued, users, services, requests, feedback>>

\* authenticateToken with the test of is_active left out: only a missing row
\* is turned away.
authenticateToken_NoActiveCheck(p) ==
    /\ calls[p].pc = "auth"
    /\ LET c == calls[p]
           user == FindUser(Val(c.user).userId)
           roles == RouteRoles(c.route)
           gate == IF IsNull(roles) THEN 0 ELSE requireRole(Val(roles), c.user)
       IN  calls' = [calls EXCEPT ![p] =
                IF ~user.exists THEN Finish(c, 401)
                ELSE IF gate # 0 THEN Finish(c, gate)
                ELSE IF ~SchemaOk(c) THEN Finish(c, 400)
                ELSE [c EXCEPT !.pc = FirstStep(c.route)]]
    /\ UNCHANGED <<envKey, now, issued, users, services, requests, feedback>>

\* authenticateToken, second half: the user row is read; then next() runs
\* requireRole and the handler up to its first storage operation.
authenticateToken(p) ==
    /\ calls[p].pc = "auth"
    /\ LET c == calls[p]
           user == FindUser(Val(c.user).userId)
           roles == RouteRoles(c.route)
           gate == IF IsNull(roles) THEN 0 ELSE requireRole(Val(roles), c.user)
       IN  calls' = [calls EXCEPT ![p] =
                IF ~user.exists \/ ~user.is_active THEN Finish(c, 401)
                ELSE IF gate # 0 THEN Finish(c, gate)
                ELSE IF ~SchemaOk(c) THEN Finish(c, 400)
                ELSE [c EXCEPT !.pc = FirstStep(c.route)]]
    /\ UNCHANGED <<envKey, now, issued, users, services, requests, feedback>>

----------------------------------------------------------------------------
(* Services: src/src/routes/services.ts, lines 244-369 *)

\* Table ServiceCategory, which no route writes: the ids of its active rows.
ActiveCategories == {"cat1", "cat2"}

\* OwnActiveService without the owner in the filter: the service of any
\* provider is found.
OwnActiveService_AnyProvider(sid, providerId) ==
    /\ FindServiceRow(sid).exists
    /\ FindServiceRow(sid).is_active

\* prisma.service.findFirst({where: {id, provider_id: providerId, is_active: true}})
\* finds a row.
OwnActiveService(sid, providerId) ==
    /\ FindServiceRow(sid).exists
    /\ FindServiceRow(sid).provider_id = providerId
    /\ FindServiceRow(sid).is_active

\* PATCH /services/:id: the caller's active service is looked for.
PatchServiceFind(p) ==
    /\ calls[p].pc = "psFind"
    /\ LET c == calls[p]
       IN  calls' = [calls EXCEPT ![p] =
                IF ~OwnActiveService(c.sid, Val(c.user).userId) THEN Finish(c, 404)
                ELSE IF ~IsNull(Val(c.data).category) THEN [c EXCEPT !.pc = "psCategory"]
                ELSE [c EXCEPT !.pc = "psUpdate"]]
    /\ UNCHANGED <<envKey, now, issued, users, services, requests, feedback>>

\* PATCH /services/:id: the category of the body is read.
PatchServiceCategory(p) ==
    /\ calls[p].pc = "psCategory"
    /\ LET c == calls[p]
       IN  calls' = [calls EXCEPT ![p] =
                IF Val(Val(c.data).category) \notin ActiveCategories THEN Finish(c, 400)
                ELSE [c EXCEPT !.pc = "psUpdate"]]
    /\ UNCHANGED <<envKey, now, issued, users, services, requests, feedback>>

\* PATCH /services/:id: the fields of the body are written and 200 is answered.
PatchServiceUpdate(p) ==
    /\ calls[p].pc = "psUpdate"
    /\ LET c == calls[p]
           old == services[c.sid]
           data == Val(c.data)
       IN  /\ services' = [services EXCEPT ![c.sid] =
                  [old EXCEPT
                     !.title = IF IsNull(data.title) THEN old.title ELSE Val(data.title),
                     !.category_id = IF IsNull(data.category) THEN old.category_id
                                     ELSE Val(data.category)]]
           /\ calls' = [calls EXCEPT ![p] = Finish(c, 200)]
    /\ UNCHANGED <<envKey, now, issued, users, requests, feedback>>

\* DELETE /services/:id: the caller's active service is looked for.
DeleteServiceFind(p) ==
    /\ calls[p].pc = "dsFind"
    /\ LET c == calls[p]
       IN  calls' = [calls EXCEPT ![p] =
                IF ~OwnActiveService(c.sid, Val(c.user).userId) THEN Finish(c, 404)
                ELSE [c EXCEPT !.pc = "dsUpdate"]]
    /\ UNCHANGED <<envKey, now, issued, users, services, requests, feedback>>

\* DELETE /services/:id: is_active is set to false and 200 is answered.
DeleteServiceUpdate(p) ==
    /\ calls[p].pc = "dsUpdate"
    /\ LET c == calls[p]
       IN  /\ services' = [services EXCEPT ![c.sid].is_active = FALSE]
           /\ calls' = [calls EXCEPT ![p] = Finish(c, 200)]
    /\ UNCHANGED <<envKey, now, issued, users, requests, feedback>>

----------------------------------------------------------------------------
(* Request Lifecycle Engine: src/src/routes/services.ts, lines 372-684 *)

\* ExistingRequest with the status filter narrowed to pending: an accepted
\* request no longer stands in the way of a new one.
ExistingRequest_PendingOnly(sid, customerId) ==
    \E i \in 1..Len(requests) :
        /\ requests[i].service_id = sid
        /\ requests[i].customer_id = customerId
        /\ requests[i].status = "pending"

\* prisma.serviceRequest.findFirst({service_id, customer_id, status in [pending, accepted]})
ExistingRequest(sid, customerId) ==
    \E i \in 1..Len(requests) :
        /\ requests[i].service_id = sid
        /\ requests[i].customer_id = customerId
        /\ requests[i].status \in OpenStatuses

\* PostRequestsFindService without is_active in the filter: a soft-deleted
\* service is found as well.
PostRequestsFindService_AnyService(p) ==
    /\ calls[p].pc = "findService"
    /\ LET c == calls[p]
           service == FindServiceRow(c.sid)
       IN  calls' = [calls EXCEPT ![p] =
                IF ~service.exists THEN Finish(c, 404)
                ELSE [c EXCEPT !.pc = "findExisting", !.provider = service.provider_id]]
    /\ UNCHANGED <<envKey, now, issued, users, services, requests, feedback>>

\* POST /requests: the service is read, with is_active: true.
PostRequestsFindService(p) ==
    /\ calls[p].pc = "findService"
    /\ LET c == calls[p]
           service == FindServiceRow(c.sid)
       IN  calls' = [calls EXCEPT ![p] =
                IF ~service.exists \/ ~service.is_active THEN Finish(c, 404)
                ELSE [c EXCEPT !.pc = "findExisting", !.provider = service.provider_id]]
    /\ UNCHANGED <<envKey, now, issued, users, services, requests, feedback>>

\* POST /requests: the customer's open request for the service is looked for.
PostRequestsFindExisting(p) ==
    /\ calls[p].pc = "findExisting"
    /\ LET c == calls[p]
       IN  calls' = [calls EXCEPT ![p] =
                IF ExistingRequest(c.sid, Val(c.user).userId) THEN Finish(c, 409)
                ELSE [c EXCEPT !.pc = "create"]]
    /\ UNCHANGED <<envKey, now, issued, users, services, requests, feedback>>

\* PostRequestsCreate with the check made again at the insert: a request of the
\* pair that is open by then refuses the row, and 409 is answered.
PostRequestsCreate_CheckedAtInsert(p) ==
    /\ calls[p].pc = "create"
    /\ LET c == calls[p]
       IN  IF ExistingRequest(c.sid, Val(c.user).userId)
           THEN /\ calls' = [calls EXCEPT ![p] = Finish(c, 409)]
                /\ UNCHANGED requests
           ELSE /\ requests' = Append(requests,
                     [service_id |-> c.sid, customer_id |-> Val(c.user).userId,
                      provider_id |-> c.provider, status |-> "pending"])
                /\ calls' = [calls EXCEPT ![p] = Finish(c, 201)]
    /\ UNCHANGED <<envKey, now, issued, users, services, feedback>>

\* PostRequestsCreate with the caller written as the provider of the row.
PostRequestsCreate_CallerAsProvider(p) ==
    /\ calls[p].pc = "create"
    /\ LET c == calls[p]
       IN  /\ requests' = Append(requests,
                [service_id |-> c.sid, customer_id |-> Val(c.user).userId,
                 provider_id |-> Val(c.user).userId, status |-> "pending"])
           /\ calls' = [calls EXCEPT ![p] = Finish(c, 201)]
    /\ UNCHANGED <<envKey, now, issued, users, services, feedback>>

\* POST /requests: the row is inserted and 201 is answered.
PostRequestsCreate(p) ==
    /\ calls[p].pc = "create"
    /\ LET c == calls[p]
       IN  /\ requests' = Append(requests,
                [service_id |-> c.sid, customer_id |-> Val(c.user).userId,
                 provider_id |-> c.provider, status |-> "pending"])
           /\ calls' = [calls EXCEPT ![p] = Finish(c, 201)]
    /\ UNCHANGED <<envKey, now, issued, users, services, feedback>>

\* canUpdate with the target left out of the customer's branch: the customer
\* may set any status on a pending request of theirs.
canUpdate_CustomerAnyTarget(userRole, userId, request, status) ==
    IF userRole = "provider" /\ request.provider_id = userId
    THEN status \in {"accepted", "declined", "completed"}
    ELSE IF userRole = "customer" /\ request.customer_id = userId
    THEN request.status = "pending"
    ELSE FALSE

\* canUpdate with the current status left out of the customer's branch: the
\* customer may cancel a request of theirs in any status.
canUpdate_CustomerCancelAnyStatus(userRole, userId, request, status) ==
    IF userRole = "provider" /\ request.provider_id = userId
    THEN status \in {"accepted", "declined", "completed"}
    ELSE IF userRole = "customer" /\ request.customer_id = userId
    THEN status = "cancelled"
    ELSE FALSE

\* canUpdate with the ownership left out of the provider's branch: every
\* provider may accept, decline or complete every request.
canUpdate_AnyProvider(userRole, userId, request, status) ==
    IF userRole = "provider"
    THEN status \in {"accepted", "declined", "completed"}
    ELSE IF userRole = "customer" /\ request.customer_id = userId
    THEN status = "cancelled" /\ request.status = "pending"
    ELSE FALSE

\* canUpdate with a test of the current status in the provider's branch: the
\* provider may accept, decline or complete only a pending or accepted request.
canUpdate_ProviderFromOpenOnly(userRole, userId, request, status) ==
    IF userRole = "provider" /\ request.provider_id = userId
    THEN status \in {"accepted", "declined", "completed"} /\ request.status \in OpenStatuses
    ELSE IF userRole = "customer" /\ request.customer_id = userId
    THEN status = "cancelled" /\ request.status = "pending"
    ELSE FALSE

\* canUpdate with the target left out of the provider's branch: the provider
\* may set any status the schema accepts, pending included.
canUpdate_ProviderAnyTarget(userRole, userId, request, status) ==
    IF userRole = "provider" /\ request.provider_id = userId
    THEN TRUE
    ELSE IF userRole = "customer" /\ request.customer_id = userId
    THEN status = "cancelled" /\ request.status = "pending"
    ELSE FALSE

\* PATCH /requests/:id, "Check permissions".
canUpdate(userRole, userId, request, status) ==
    IF userRole = "provider" /\ request.provider_id = userId
    THEN status \in {"accepted", "declined", "completed"}
    ELSE IF userRole = "customer" /\ request.customer_id = userId
    THEN status = "cancelled" /\ request.status = "pending"
    ELSE FALSE

\* PATCH /requests/:id: the request is read and the permission decided.
PatchRequestFind(p) ==
    /\ calls[p].pc = "findRequest"
    /\ LET c == calls[p]
       IN  calls' = [calls EXCEPT ![p] =
                IF c.rid \notin 1..Len(requests) THEN Finish(c, 404)
                ELSE IF ~canUpdate(Val(c.user).role, Val(c.user).userId,
                                   requests[c.rid], c.status)
                THEN Finish(c, 403)
                ELSE [c EXCEPT !.pc = "update"]]
    /\ UNCHANGED <<envKey, now, issued, users, services, requests, feedback>>

\* PATCH /requests/:id: the status is written and 200 is answered.
PatchRequestUpdate(p) ==
    /\ calls[p].pc = "update"
    /\ LET c == calls[p]
       IN  /\ requests' = [requests EXCEPT ![c.rid].status = c.status]
           /\ calls' = [calls EXCEPT ![p] = Finish(c, 200)]
    /\ UNCHANGED <<envKey, now, issued, users, services, feedback>>

----------------------------------------------------------------------------
(* Feedback / Rating Aggregator: src/unnamed/part_000 *)

\* prisma.feedback.findUnique({where: {service_request_id}})
ExistingFeedback(rid) ==
    \E i \in 1..Len(feedback) : feedback[i].service_request_id = rid

\* A storage without the uniqueness: no insert is refused.
FeedbackUniqueViolation_None(rid) == FALSE

\* The storage's uniqueness of Feedback.service_request_id: an insert of a
\* second row for the same request is refused (the create throws).
FeedbackUniqueViolation(rid) ==
    \E i \in 1..Len(feedback) : feedback[i].service_request_id = rid

RECURSIVE SumRatings(_, _, _)
\* providerFeedback.reduce((sum, f) => sum + f.rating, 0) over the provider's rows
SumRatings(rows, providerId, i) ==
    IF i > Len(rows) THEN 0
    ELSE (IF rows[i].provider_id = providerId THEN rows[i].rating ELSE 0)
         + SumRatings(rows, providerId, i + 1)

CountRatings(rows, providerId) ==
    Cardinality({i \in 1..Len(rows) : rows[i].provider_id = providerId})

\* The average cut off after its first decimal instead of rounded.
RoundedMean_Truncated(sum, n) == (10 * sum) \div n

\* Math.round(averageRating * 10) / 10, in tenths: round half up of 10 * sum / n.
RoundedMean(sum, n) == (20 * sum + n) \div (2 * n)

\* CompletedRequestOf without the status filter: feedback is taken for a
\* request of the caller in any status.
CompletedRequestOf_AnyStatus(rid, customerId) ==
    /\ rid \in 1..Len(requests)
    /\ requests[rid].customer_id = customerId

\* prisma.serviceRequest.findFirst({id, customer_id, status: 'completed'}) finds a row.
CompletedRequestOf(rid, customerId) ==
    /\ rid \in 1..Len(requests)
    /\ requests[rid].customer_id = customerId
    /\ requests[rid].status = "completed"

\* POST /feedback: the caller's completed request is looked for.
PostFeedbackFindRequest(p) ==
    /\ calls[p].pc = "fbFindRequest"
    /\ LET c == calls[p]
           found == CompletedRequestOf(c.rid, Val(c.user).userId)
       IN  calls' = [calls EXCEPT ![p] =
                IF ~found THEN Finish(c, 404)
                ELSE [c EXCEPT !.pc = "fbFindExisting",
                               !.provider = requests[c.rid].provider_id]]
    /\ UNCHANGED <<envKey, now, issued, users, services, requests, feedback>>

\* PostFeedbackFindExisting without the lookup: the handler goes on to the
\* insert whether or not the request has a Feedback row.
PostFeedbackFindExisting_NoCheck(p) ==
    /\ calls[p].pc = "fbFindExisting"
    /\ calls' = [calls EXCEPT ![p].pc = "fbCreate"]
    /\ UNCHANGED <<envKey, now, issued, users, services, requests, feedback>>

\* POST /feedback: an earlier feedback for the request is looked for.
PostFeedbackFindExisting(p) ==
    /\ calls[p].pc = "fbFindExisting"
    /\ LET c == calls[p]
       IN  calls' = [calls EXCEPT ![p] =
                IF ExistingFeedback(c.rid) THEN Finish(c, 409)
                ELSE [c EXCEPT !.pc = "fbCreate"]]
    /\ UNCHANGED <<envKey, now, issued, users, services, requests, feedback>>

\* The column Feedback.rating holds integers: an insert of a rating that is not
\* a whole number is refused (the create throws).
FeedbackRatingNotInteger(rating) == rating % 10 # 0

\* POST /feedback: the row is inserted; a refused insert throws, and the catch
\* block answers 500 for anything that is not a ZodError.
PostFeedbackCreate(p) ==
    /\ calls[p].pc = "fbCreate"
    /\ LET c == calls[p]
       IN  IF FeedbackRatingNotInteger(RatingTenths(c)) \/ FeedbackUniqueViolation(c.rid)
           THEN /\ calls' = [calls EXCEPT ![p] = Finish(c, 500)]
                /\ UNCHANGED feedback
           ELSE /\ feedback' = Append(feedback,
                     [service_request_id |-> c.rid, customer_id |-> Val(c.user).userId,
                      provider_id |-> c.provider, rating |-> c.rating, is_public |-> TRUE])
                /\ calls' = [calls EXCEPT ![p].pc = "fbFindMany"]
    /\ UNCHANGED <<envKey, now, issued, users, services, requests>>

\* POST /feedback: the provider's ratings are read and averaged.
PostFeedbackFindMany(p) ==
    /\ calls[p].pc = "fbFindMany"
    /\ LET c == calls[p]
       IN  calls' = [calls EXCEPT ![p] =
                [c EXCEPT !.pc = "fbUserUpdate",
                          !.newRating = RoundedMean(SumRatings(feedback, c.provider, 1),
                                                    CountRatings(feedback, c.provider))]]
    /\ UNCHANGED <<envKey, now, issued, users, services, requests, feedback>>

\* POST /feedback: the provider's rating is written and 201 is answered.
PostFeedbackUserUpdate(p) ==
    /\ calls[p].pc = "fbUserUpdate"
    /\ LET c == calls[p]
       IN  /\ users' = [users EXCEPT ![c.provider].rating = c.newRating]
           /\ calls' = [calls EXCEPT ![p] = Finish(c, 201)]
    /\ UNCHANGED <<envKey, now, issued, services, requests, feedback>>

\* POST /feedback: the prisma call the handler is waiting for rejects (the
\* storage is unreachable or the query times out); the catch block answers 500
\* for anything that is not a ZodError. What earlier awaits wrote stays written.
PostFeedbackStorageFails(p) ==
    /\ calls[p].pc \in {"fbFindRequest", "fbFindExisting", "fbCreate",
                        "fbFindMany", "fbUserUpdate"}
    /\ calls' = [calls EXCEPT ![p] = Finish(calls[p], 500)]
    /\ UNCHANGED <<envKey, now, issued, users, services, requests, feedback>>

\* s with its elements in the opposite order.
Reverse(s) == [i \in 1..Len(s) |-> s[Len(s) + 1 - i]]

\* prisma.feedback.findMany({where: {provider_id, is_public: true},
\* orderBy: {created_at: 'desc'}}); the table is kept in the order of creation.
PublicFeedbackOf(providerId) ==
    Reverse(SelectSeq(feedback, LAMBDA f : f.provider_id = providerId /\ f.is_public))

\* The average read from the cached User.rating of the rows' provider.
averageRating_Cached(rows) ==
    IF Len(rows) > 0 THEN users[rows[1].provider_id].rating ELSE 0

\* Math.round(averageRating * 10) / 10 over the rows returned, in tenths; 0 when
\* there are none.
averageRating(rows) ==
    IF Len(rows) > 0
    THEN RoundedMean(SumRatings(rows, rows[1].provider_id, 1), Len(rows))
    ELSE 0

\* GET /feedback/provider/:id is registered without authenticateToken.
ReceiveGetProviderFeedback(p, ids) ==
    /\ calls[p].pc = "idle"
    /\ \E id \in ids :
          calls' = [calls EXCEPT ![p] =
              [IdleCall EXCEPT !.route = "GET /feedback/provider/:id",
                               !.pc = "gfFindProvider", !.data = Some([id |-> id])]]
    /\ UNCHANGED <<envKey, now, issued, users, services, requests, feedback>>

\* GET /feedback/provider/:id: the user is read by id and role provider.
GetProviderFeedbackFindProvider(p) ==
    /\ calls[p].pc = "gfFindProvider"
    /\ LET c == calls[p]
           provider == FindUser(Val(c.data).id)
       IN  calls' = [calls EXCEPT ![p] =
                IF ~provider.exists \/ provider.role # "provider" THEN Finish(c, 404)
                ELSE [c EXCEPT !.pc = "gfFindMany"]]
    /\ UNCHANGED <<envKey, now, issued, users, services, requests, feedback>>

\* GET /feedback/provider/:id: the public rows are read, counted and averaged,
\* and sent with 200.
GetProviderFeedbackFindMany(p) ==
    /\ calls[p].pc = "gfFindMany"
    /\ LET c == calls[p]
           rows == PublicFeedbackOf(Val(c.data).id)
       IN  calls' = [calls EXCEPT ![p] =
                [Finish(c, 200) EXCEPT !.body =
                    Some([feedback |-> rows, average_rating |-> averageRating(rows),
                          total_reviews |-> Len(rows)])]]
    /\ UNCHANGED <<envKey, now, issued, users, services, requests, feedback>>

----------------------------------------------------------------------------
(* The calls a client can make *)

\* Access tokens handed out at login at time 0, one per user.
LoginTokens == {generateAccessToken(TokenUser(u), 0) : u \in UserIds}

Headers == {Null} \cup {Some(t) : t \in LoginTokens}

StatusInputs == Statuses \cup {"unknown"}

\* The table ServiceRequest is kept to MaxRequests rows: a creation is taken up
\* while there is room for its row, or when the caller's open request for the
\* service stands in its way.
RoomForRequest(h, s) ==
    \/ Len(requests) + InFlight("POST /requests") < MaxRequests
    \/ ~IsNull(h) /\ \E i \in 1..Len(requests) :
            /\ requests[i].service_id = s /\ requests[i].customer_id = Val(h).userId
            /\ requests[i].status \in OpenStatuses

ReceivePostRequests(p, headers, sids) ==
    \E h \in headers, s \in sids :
        /\ RoomForRequest(h, s)
        /\ Receive(p, [IdleCall EXCEPT !.route = "POST /requests", !.header = h, !.sid = s])

ReceivePatchRequest(p, headers, targets) ==
    \E h \in headers, r \in RequestIds, st \in targets :
        Receive(p, [IdleCall EXCEPT !.route = "PATCH /requests/:id", !.header = h,
                                    !.rid = r, !.status = st])

ReceivePostFeedbackFor(p, headers, rids, ratings) ==
    \E h \in headers, r \in rids, n \in ratings :
        Receive(p, [IdleCall EXCEPT !.route = "POST /feedback", !.header = h,
                                    !.rid = r, !.rating = n])

\* A submission whose rating is whole + tenths / 10.
ReceivePostFeedbackRating(p, headers, rids, wholes, tenths) ==
    \E h \in headers, r \in rids, n \in wholes, t \in tenths :
        Receive(p, [IdleCall EXCEPT !.route = "POST /feedback", !.header = h,
                                    !.rid = r, !.rating = n,
                                    !.data = Some([tenths |-> t])])

ReceivePostFeedback(p, headers, ratings) ==
    ReceivePostFeedbackFor(p, headers, RequestIds, ratings)

ReceivePatchService(p, headers, sids, titles, categories) ==
    \E h \in headers, s \in sids, t \in titles, cat \in categories :
        Receive(p, [IdleCall EXCEPT !.route = "PATCH /services/:id", !.header = h, !.sid = s,
                                    !.data = Some([title |-> t, category |-> cat])])

ReceiveDeleteService(p, headers, sids) ==
    \E h \in headers, s \in sids :
        Receive(p, [IdleCall EXCEPT !.route = "DELETE /services/:id", !.header = h, !.sid = s])

\* The response has been sent and the handler has returned: the call is over.
CallEnds(p) ==
    /\ calls[p].pc = "done"
    /\ calls' = [calls EXCEPT ![p] = IdleCall]
    /\ UNCHANGED <<envKey, now, issued, users, services, requests, feedback>>

NoCallInProgress == \A q \in Procs : calls[q].pc = "idle"

InitUsers ==
    [u \in UserIds |->
        [exists |-> TRUE, email |-> EmailOf(u), password |-> hashPassword(PasswordOf(u)),
         role |-> RoleOf(u), is_active |-> TRUE, rating |-> 0, name |-> "first name"]]

\* Service s1 belongs to provider p1, s2 to p2.
InitServices ==
    [s \in ServiceIds |->
        [exists |-> TRUE, provider_id |-> IF s = "s1" THEN "p1" ELSE "p2",
         is_active |-> TRUE, title |-> "first title", category_id |-> "cat1"]]

----------------------------------------------------------------------------
(* Spec: the request lifecycle, with calls that do not overlap *)

Init ==
    /\ envKey = Null
    /\ now = 0
    /\ issued = {}
    /\ users = InitUsers
    /\ services = InitServices
    /\ requests = <<>>
    /\ feedback = <<>>
    /\ calls = [p \in Procs |-> IdleCall]

Next ==
    \/ NoCallInProgress /\ ReceivePostRequests(1, Headers, ServiceIds \cup {"s0"})
    \/ NoCallInProgress /\ ReceivePatchRequest(1, Headers, StatusInputs)
    \/ authenticateToken(1)
    \/ PostRequestsFindService(1)
    \/ PostRequestsFindExisting(1)
    \/ PostRequestsCreate(1)
    \/ PatchRequestFind(1)
    \/ PatchRequestUpdate(1)
    \/ CallEnds(1)

Spec == Init /\ [][Next]_vars

----------------------------------------------------------------------------
(* SpecFeedback: lifecycle and feedback, with calls that do not overlap *)

CustomerHeaders == {Some(generateAccessToken(TokenUser(u), 0)) : u \in Customers}

NextFeedback ==
    \/ NoCallInProgress /\ ReceivePostRequests(1, CustomerHeaders, {"s1"})
    \/ NoCallInProgress
          /\ ReceivePatchRequest(1, Headers \ {Null}, {"completed", "declined", "cancelled"})
    \/ NoCallInProgress /\ ReceivePostFeedback(1, Headers, {0, 2, 5})
    \/ authenticateToken(1)
    \/ PostRequestsFindService(1)
    \/ PostRequestsFindExisting(1)
    \/ PostRequestsCreate(1)
    \/ PatchRequestFind(1)
    \/ PatchRequestUpdate(1)
    \/ PostFeedbackFindRequest(1)
    \/ PostFeedbackFindExisting(1)
    \/ PostFeedbackCreate(1)
    \/ PostFeedbackFindMany(1)
    \/ PostFeedbackUserUpdate(1)
    \/ CallEnds(1)

SpecFeedback == Init /\ [][NextFeedback]_vars

----------------------------------------------------------------------------
(* SpecFeedbackRace: POST /feedback calls that overlap, on two completed *)
(* requests of provider p1                                               *)

CompletedRow(customerId) ==
    [service_id |-> "s1", customer_id |-> customerId, provider_id |-> "p1",
     status |-> "completed"]

InitFeedbackRace ==
    /\ envKey = Null
    /\ now = 0
    /\ issued = {}
    /\ users = InitUsers
    /\ services = InitServices
    /\ requests = <<CompletedRow("c1"), CompletedRow("c2")>>
    /\ feedback = <<>>
    /\ calls = [p \in Procs |-> IdleCall]

NextFeedbackRace ==
    \E p \in Procs :
        \/ ReceivePostFeedback(p, CustomerHeaders, {4})
        \/ authenticateToken(p)
        \/ PostFeedbackFindRequest(p)
        \/ PostFeedbackFindExisting(p)
        \/ PostFeedbackCreate(p)
        \/ PostFeedbackFindMany(p)
        \/ PostFeedbackUserUpdate(p)
        \/ CallEnds(p)

SpecFeedbackRace == InitFeedbackRace /\ [][NextFeedbackRace]_vars

----------------------------------------------------------------------------
(* SpecRatingRace: overlapping POST /feedback calls with different ratings, *)
(* on two completed requests of provider p1                                 *)

NextRatingRace ==
    \E p \in Procs :
        \/ ReceivePostFeedback(p, CustomerHeaders, {1, 5})
        \/ authenticateToken(p)
        \/ PostFeedbackFindRequest(p)
        \/ PostFeedbackFindExisting(p)
        \/ PostFeedbackCreate(p)
        \/ PostFeedbackFindMany(p)
        \/ PostFeedbackUserUpdate(p)
        \/ CallEnds(p)

SpecRatingRace == InitFeedbackRace /\ [][NextRatingRace]_vars

----------------------------------------------------------------------------
(* SpecRequestRace: POST /requests calls that overlap *)

NextRequestRace ==
    \E p \in Procs :
        \/ ReceivePostRequests(p, CustomerHeaders, {"s1"})
        \/ authenticateToken(p)
        \/ PostRequestsFindService(p)
        \/ PostRequestsFindExisting(p)
        \/ PostRequestsCreate(p)
        \/ CallEnds(p)

SpecRequestRace == Init /\ [][NextRequestRace]_vars

----------------------------------------------------------------------------
(* SpecTransitionRace: PATCH /requests/:id calls that overlap, of the *)
(* customer and the provider of one pending request                   *)

\* Customer c1 has asked for service s1 of provider p1.
PendingRow ==
    [service_id |-> "s1", customer_id |-> "c1", provider_id |-> "p1", status |-> "pending"]

OwnerHeaders == {Some(generateAccessToken(TokenUser(u), 0)) : u \in {"c1", "p1"}}

InitTransitionRace ==
    /\ envKey = Null
    /\ now = 0
    /\ issued = {}
    /\ users = InitUsers
    /\ services = InitServices
    /\ requests = <<PendingRow>>
    /\ feedback = <<>>
    /\ calls = [p \in Procs |-> IdleCall]

NextTransitionRace ==
    \E p \in Procs :
        \/ ReceivePatchRequest(p, OwnerHeaders, Statuses \ {"pending"})
        \/ authenticateToken(p)
        \/ PatchRequestFind(p)
        \/ PatchRequestUpdate(p)
        \/ CallEnds(p)

SpecTransitionRace == InitTransitionRace /\ [][NextTransitionRace]_vars

----------------------------------------------------------------------------
(* SpecRating: POST /feedback calls that do not overlap, on MaxRated *)
(* completed requests of provider p1                                 *)

\* The completed requests of service s1, of customers c1 and c2 in turn.
RatedRequests ==
    [i \in 1..MaxRated |-> CompletedRow(IF i % 2 = 1 THEN "c1" ELSE "c2")]

InitRating ==
    /\ envKey = Null
    /\ now = 0
    /\ issued = {}
    /\ users = InitUsers
    /\ services = InitServices
    /\ requests = RatedRequests
    /\ feedback = <<>>
    /\ calls = [p \in Procs |-> IdleCall]

NextRating ==
    \/ NoCallInProgress /\ ReceivePostFeedbackFor(1, CustomerHeaders, 1..MaxRated, {1, 2})
    \/ authenticateToken(1)
    \/ PostFeedbackFindRequest(1)
    \/ PostFeedbackFindExisting(1)
    \/ PostFeedbackCreate(1)
    \/ PostFeedbackFindMany(1)
    \/ PostFeedbackUserUpdate(1)
    \/ CallEnds(1)

SpecRating == InitRating /\ [][NextRating]_vars

----------------------------------------------------------------------------
(* POST /auth/login: src/unnamed/part_001, lines 102-178 *)

loginSchema(email, password) == email # "not-an-email" /\ password # ""

\* prisma.user.findUnique({where: {email}}): the ids of the rows with the email.
UsersWithEmail(email) == {u \in DOMAIN users : users[u].exists /\ users[u].email = email}

ReceiveLogin(p, emails, passwords) ==
    /\ calls[p].pc = "idle"
    /\ Cardinality(issued) + InFlight("POST /auth/login") < MaxIssued
    /\ \E e \in emails, pw \in passwords :
          LET c == [IdleCall EXCEPT !.route = "POST /auth/login", !.email = e, !.password = pw]
          IN  calls' = [calls EXCEPT ![p] =
                  IF ~loginSchema(e, pw) THEN Finish(c, 400)
                  ELSE [c EXCEPT !.pc = "loginFindUser"]]
    /\ UNCHANGED <<envKey, now, issued, users, services, requests, feedback>>

\* The user is read by email; password and is_active are checked; a token pair
\* is generated from the row and sent.
PostLogin(p) ==
    /\ calls[p].pc = "loginFindUser"
    /\ LET c == calls[p]
           ids == UsersWithEmail(c.email)
           u == CHOOSE u \in ids : TRUE
       IN  IF \/ ids = {}
              \/ ~verifyPassword(c.password, users[u].password)
              \/ ~users[u].is_active
           THEN /\ calls' = [calls EXCEPT ![p] = Finish(c, 401)]
                /\ UNCHANGED issued
           ELSE /\ issued' = issued \cup {generateTokenPair(TokenUser(u), now)}
                /\ calls' = [calls EXCEPT ![p] = Finish(c, 200)]
    /\ UNCHANGED <<envKey, now, users, services, requests, feedback>>

----------------------------------------------------------------------------
(* POST /auth/refresh: src/unnamed/part_001, lines 180-244 *)

\* refresh_token: z.string().min(1); a body without the field is <<>>.
refreshTokenSchema(token) == ~IsNull(token)

\* The refresh will hand out no pair, whatever happens later: the token does not
\* pass verifyRefreshToken, or the user it names is missing or inactive.
RefreshBoundToFail(token) ==
    IF IsNull(token) THEN TRUE
    ELSE IF IsNull(verifyRefreshToken(Val(token), now)) THEN TRUE
    ELSE ~(FindUser(Val(token).userId).exists /\ FindUser(Val(token).userId).is_active)

\* A call arrives: the body is parsed and the token verified. The pairs handed
\* out are kept to MaxIssued.
ReceiveRefresh(p, tokens) ==
    /\ calls[p].pc = "idle"
    /\ \E tok \in tokens :
          /\ \/ RefreshBoundToFail(tok)
             \/ Cardinality(issued) + InFlight("POST /auth/login")
                    + InFlight("POST /auth/refresh") < MaxIssued
          /\ LET c == [IdleCall EXCEPT !.route = "POST /auth/refresh", !.header = tok]
                 payload == IF refreshTokenSchema(tok)
                            THEN verifyRefreshToken(Val(tok), now) ELSE Null
             IN  calls' = [calls EXCEPT ![p] =
                     IF ~refreshTokenSchema(tok) THEN Finish(c, 400)
                     ELSE IF IsNull(payload) THEN Finish(c, 401)
                     ELSE [c EXCEPT !.pc = "refreshFindUser", !.user = payload]]
    /\ UNCHANGED <<envKey, now, issued, users, services, requests, feedback>>

\* PostRefresh with the test of is_active left out: only a missing row is
\* turned away.
PostRefresh_NoActiveCheck(p) ==
    /\ calls[p].pc = "refreshFindUser"
    /\ LET c == calls[p]
           user == FindUser(Val(c.user).userId)
       IN  IF ~user.exists
           THEN /\ calls' = [calls EXCEPT ![p] = Finish(c, 401)]
                /\ UNCHANGED issued
           ELSE /\ issued' = issued \cup {generateTokenPair(TokenUser(Val(c.user).userId), now)}
                /\ calls' = [calls EXCEPT ![p] = Finish(c, 200)]
    /\ UNCHANGED <<envKey, now, users, services, requests, feedback>>

\* The user the token names is read; a token pair is generated from the row
\* and sent.
PostRefresh(p) ==
    /\ calls[p].pc = "refreshFindUser"
    /\ LET c == calls[p]
           user == FindUser(Val(c.user).userId)
       IN  IF ~user.exists \/ ~user.is_active
           THEN /\ calls' = [calls EXCEPT ![p] = Finish(c, 401)]
                /\ UNCHANGED issued
           ELSE /\ issued' = issued \cup {generateTokenPair(TokenUser(Val(c.user).userId), now)}
                /\ calls' = [calls EXCEPT ![p] = Finish(c, 200)]
    /\ UNCHANGED <<envKey, now, users, services, requests, feedback>>

----------------------------------------------------------------------------
(* POST /auth/register: src/unnamed/part_001, lines 29-100 *)

\* email: z.string().email(), password: z.string().min(6), role: z.enum.
registerSchema(email, password, role) ==
    /\ email # "not-an-email"
    /\ password \notin {"", "short"}
    /\ role \in {"customer", "provider"}

\* The ids the storage has not given to a row yet.
FreeUserIds == {u \in DOMAIN users : ~users[u].exists}

\* The storage's uniqueness of User.email: the insert of a second row with the
\* same email is refused (the create throws).
UserEmailUniqueViolation(email) ==
    \E u \in DOMAIN users : users[u].exists /\ users[u].email = email

\* A call arrives and its body is parsed. A call is taken up while the storage
\* has an id left for its row.
ReceiveRegister(p, emails, passwords, roles) ==
    /\ calls[p].pc = "idle"
    /\ Cardinality(FreeUserIds) > InFlight("POST /auth/register")
    /\ \E e \in emails, pw \in passwords, r \in roles :
          LET c == [IdleCall EXCEPT !.route = "POST /auth/register", !.email = e,
                                    !.password = pw, !.data = Some([role |-> r])]
          IN  calls' = [calls EXCEPT ![p] =
                  IF ~registerSchema(e, pw, r) THEN Finish(c, 400)
                  ELSE [c EXCEPT !.pc = "regFindUser"]]
    /\ UNCHANGED <<envKey, now, issued, users, services, requests, feedback>>

\* The user with the email is looked for; the password is hashed.
PostRegisterFindUser(p) ==
    /\ calls[p].pc = "regFindUser"
    /\ LET c == calls[p]
       IN  calls' = [calls EXCEPT ![p] =
                IF UsersWithEmail(c.email) # {} THEN Finish(c, 409)
                ELSE [c EXCEPT !.pc = "regCreate"]]
    /\ UNCHANGED <<envKey, now, issued, users, services, requests, feedback>>

\* The row is inserted under a new id, a token pair is generated for it and
\* 201 is answered; a refused insert throws, and the catch block answers 500
\* for anything that is not a ZodError.
PostRegisterCreate(p) ==
    /\ calls[p].pc = "regCreate"
    /\ LET c == calls[p]
       IN  IF UserEmailUniqueViolation(c.email)
           THEN /\ calls' = [calls EXCEPT ![p] = Finish(c, 500)]
                /\ UNCHANGED <<users, issued>>
           ELSE \E u \in FreeUserIds :
                  LET user == [id |-> u, email |-> c.email, role |-> Val(c.data).role]
                  IN  /\ users' = [users EXCEPT ![u] =
                             [exists |-> TRUE, email |-> c.email,
                              password |-> hashPassword(c.password),
                              role |-> Val(c.data).role, is_active |-> TRUE, rating |-> 0,
                              name |-> "first name"]]
                      /\ issued' = issued \cup {generateTokenPair(user, now)}
                      /\ calls' = [calls EXCEPT ![p] = Finish(c, 201)]
    /\ UNCHANGED <<envKey, now, services, requests, feedback>>

----------------------------------------------------------------------------
(* PATCH /profile: src/src/routes/profile.ts, lines 59-105 *)

\* A parse that keeps every key of the body, the ones the schema does not name
\* included.
validatedProfileData_Passthrough(body) == body

\* updateProfileSchema.parse(req.body): a zod object drops the keys it does not
\* name, so of name, email and role only name is left.
validatedProfileData(body) == [name |-> body.name, email |-> Null, role |-> Null]

\* prisma.user.update({where: {id}, data}): the fields present in data are written.
UpdatedUser(row, data) ==
    [row EXCEPT !.name = IF IsNull(data.name) THEN row.name ELSE Val(data.name),
                !.email = IF IsNull(data.email) THEN row.email ELSE Val(data.email),
                !.role = IF IsNull(data.role) THEN row.role ELSE Val(data.role)]

ReceivePatchProfile(p, headers, bodies) ==
    \E h \in headers, b \in bodies :
        Receive(p, [IdleCall EXCEPT !.route = "PATCH /profile", !.header = h,
                                    !.data = Some(b)])

\* PATCH /profile: the caller's row is updated with the parsed body and 200 is
\* answered; an update of a row that is not there throws, and the catch block
\* answers 500.
PatchProfileUpdate(p) ==
    /\ calls[p].pc = "profUpdate"
    /\ LET c == calls[p]
           id == Val(c.user).userId
       IN  IF ~FindUser(id).exists
           THEN /\ calls' = [calls EXCEPT ![p] = Finish(c, 500)]
                /\ UNCHANGED users
           ELSE /\ users' = [users EXCEPT ![id] =
                        UpdatedUser(users[id], validatedProfileData(Val(c.data)))]
                /\ calls' = [calls EXCEPT ![p] = Finish(c, 200)]
    /\ UNCHANGED <<envKey, now, issued, services, requests, feedback>>

----------------------------------------------------------------------------
(* The environment of the server *)

\* The instants at which the clock is looked at: issue time, just before and
\* at the expiry of an access token, just before and at that of a refresh token.
Instants == {0, AccessTtl - 1, AccessTtl, RefreshTtl - 1, RefreshTtl}

Tick(instants) ==
    /\ \E t \in instants : t > now /\ now' = t
    /\ UNCHANGED <<envKey, issued, users, services, requests, feedback, calls>>

\* An administrator clears the account-active flag of a user.
DeactivateUser(u) ==
    /\ users[u].exists /\ users[u].is_active
    /\ users' = [users EXCEPT ![u].is_active = FALSE]
    /\ UNCHANGED <<envKey, now, issued, services, requests, feedback, calls>>

\* An administrator removes the row of a user to which no other row refers.
RemoveUser(u) ==
    /\ users[u].exists
    /\ \A s \in DOMAIN services : services[s].provider_id # u
    /\ \A i \in 1..Len(requests) : u \notin {requests[i].customer_id, requests[i].provider_id}
    /\ \A i \in 1..Len(feedback) : u \notin {feedback[i].customer_id, feedback[i].provider_id}
    /\ users' = [users EXCEPT ![u] = NoUser]
    /\ UNCHANGED <<envKey, now, issued, services, requests, feedback, calls>>

----------------------------------------------------------------------------
(* SpecGate: tokens and the gate, with a clock and account deactivation *)

EnvKeys == {Null, Some(""), Some("k1")}

\* A token signed by someone who does not know the server's secrets.
ForgedToken ==
    jwtSign([userId |-> "c1", email |-> EmailOf("c1"), role |-> "customer"],
            "not-the-secret", AccessTtl, 0)

\* What a client can put in the Authorization header: nothing, a forged token,
\* or either token of a pair it was handed.
GateHeaders ==
    {Null, Some(ForgedToken)}
        \cup {Some(pr.accessToken) : pr \in issued}
        \cup {Some(pr.refreshToken) : pr \in issued}

InitGate ==
    /\ envKey \in {Null, Some("k1")}
    /\ now = 0
    /\ issued = {}
    /\ users = InitUsers
    /\ services = InitServices
    /\ requests = <<>>
    /\ feedback = <<>>
    /\ calls = [p \in Procs |-> IdleCall]

LoginEmails == {EmailOf("c1"), EmailOf("p1"), "nobody@x"}
LoginPasswords == {PasswordOf("c1"), PasswordOf("p1"), ""}

NextGate ==
    \/ ReceiveLogin(1, LoginEmails, LoginPasswords)
    \/ PostLogin(1)
    \/ ReceivePostRequests(1, GateHeaders, {"s1"})
    \/ ReceivePatchRequest(1, GateHeaders, {"accepted"})
    \/ authenticateToken(1)
    \/ PostRequestsFindService(1)
    \/ PostRequestsFindExisting(1)
    \/ PostRequestsCreate(1)
    \/ PatchRequestFind(1)
    \/ PatchRequestUpdate(1)
    \/ CallEnds(1)
    \/ Tick({AccessTtl - 1, AccessTtl})
    \/ \E u \in {"c1", "p1"} : DeactivateUser(u)
    \/ RemoveUser("c1")

SpecGate == InitGate /\ [][NextGate]_vars

----------------------------------------------------------------------------
(* SpecToken: the token service alone, under every secret configuration *)

InitToken ==
    /\ envKey \in EnvKeys
    /\ now = 0
    /\ issued = {}
    /\ users = InitUsers
    /\ services = InitServices
    /\ requests = <<>>
    /\ feedback = <<>>
    /\ calls = [p \in Procs |-> IdleCall]

NextToken ==
    \/ ReceiveLogin(1, LoginEmails, LoginPasswords)
    \/ PostLogin(1)
    \/ CallEnds(1)
    \/ Tick(Instants)

SpecToken == InitToken /\ [][NextToken]_vars

----------------------------------------------------------------------------
(* SpecRefresh: login and refresh, with a clock and account deactivation *)

NextRefresh ==
    \/ ReceiveLogin(1, {EmailOf("c1"), EmailOf("p1")}, {PasswordOf("c1"), PasswordOf("p1")})
    \/ PostLogin(1)
    \/ ReceiveRefresh(1, GateHeaders)
    \/ PostRefresh(1)
    \/ CallEnds(1)
    \/ Tick({AccessTtl, RefreshTtl - 1, RefreshTtl})
    \/ \E u \in {"c1", "p1"} : DeactivateUser(u)
    \/ RemoveUser("c1")

SpecRefresh == InitGate /\ [][NextRefresh]_vars

----------------------------------------------------------------------------
(* SpecServices: services patched and soft-deleted while requests are made, *)
(* with calls that do not overlap                                          *)

ServiceHeaders == {Some(generateAccessToken(TokenUser(u), 0)) : u \in {"c1", "p1", "p2"}}

NextServices ==
    \/ NoCallInProgress /\ ReceivePostRequests(1, ServiceHeaders, {"s1", "s0"})
    \/ NoCallInProgress /\ ReceivePatchRequest(1, ServiceHeaders, {"accepted", "cancelled"})
    \/ NoCallInProgress
          /\ ReceivePatchService(1, ServiceHeaders, {"s1", "s0"},
                                 {Null, Some("new title"), Some("ab")},
                                 {Null, Some("cat2"), Some("cat0")})
    \/ NoCallInProgress /\ ReceiveDeleteService(1, ServiceHeaders, {"s1", "s0"})
    \/ authenticateToken(1)
    \/ PostRequestsFindService(1)
    \/ PostRequestsFindExisting(1)
    \/ PostRequestsCreate(1)
    \/ PatchRequestFind(1)
    \/ PatchRequestUpdate(1)
    \/ PatchServiceFind(1)
    \/ PatchServiceCategory(1)
    \/ PatchServiceUpdate(1)
    \/ DeleteServiceFind(1)
    \/ DeleteServiceUpdate(1)
    \/ CallEnds(1)

SpecServices == Init /\ [][NextServices]_vars

----------------------------------------------------------------------------
(* SpecRegister: POST /auth/register calls that overlap *)

\* Users c1 and p1 are registered; the ids c2 and p2 are not taken yet, and
\* the only service is s1 of p1.
InitRegister ==
    /\ envKey = Null
    /\ now = 0
    /\ issued = {}
    /\ users = [u \in UserIds |-> IF u \in {"c1", "p1"} THEN InitUsers[u] ELSE NoUser]
    /\ services = [InitServices EXCEPT !["s2"] = NoService]
    /\ requests = <<>>
    /\ feedback = <<>>
    /\ calls = [p \in Procs |-> IdleCall]

RegisterEmails == {EmailOf("c1"), "new@x", "other@x", "not-an-email"}

NextRegister ==
    \E p \in Procs :
        \/ ReceiveRegister(p, RegisterEmails, {"pw-new", "short"}, {"customer", "provider", "admin"})
        \/ PostRegisterFindUser(p)
        \/ PostRegisterCreate(p)
        \/ CallEnds(p)

SpecRegister == InitRegister /\ [][NextRegister]_vars

----------------------------------------------------------------------------
(* Global error handler: src/src/middleware/errorHandler.ts *)

\* The classes errorHandler tests with instanceof; "Error" is every other one.
ErrorClasses ==
    {"ZodError", "PrismaClientKnownRequestError", "PrismaClientValidationError",
     "AppError", "Error"}

ErrorMessages == {"", "connect ECONNREFUSED 10.0.0.5:5432"}

\* The errors passed to next(): each class with the fields the handler reads.
\* An error of class "Error" has one of four names; issues are a ZodError's
\* errors, code a Prisma error's code, statusCode an AppError's status.
Errors ==
    {[class |-> cl, name |-> nm, message |-> m, stack |-> "Error at handler.ts:1",
      issues |-> iss, code |-> cd, statusCode |-> sc] :
        cl \in ErrorClasses,
        nm \in {"Error", "SyntaxError", "JsonWebTokenError", "TokenExpiredError"},
        m \in ErrorMessages,
        iss \in {<<>>, <<[field |-> "rating", message |-> "Required"]>>},
        cd \in {"", "P2002", "P2025", "P2003"},
        sc \in {0, 404, 500}}

\* The errors that can be constructed: only a ZodError has issues, only a Prisma
\* known request error a code, only an AppError a statusCode, and only a plain
\* Error a name other than "Error".
ThrownErrors ==
    {e \in Errors :
        /\ e.class # "Error" => e.name = "Error"
        /\ e.class # "ZodError" => e.issues = <<>>
        /\ (e.code # "") = (e.class = "PrismaClientKnownRequestError")
        /\ (e.statusCode # 0) = (e.class = "AppError")}

NodeEnvs == {Null, Some("development"), Some("production")}

\* errorDetails || error.message: the field error of the response body.
NoDetails == [issues |-> <<>>, code |-> "", text |-> ""]

\* errorHandler(error, req, res, next): the status and the body it sends.
errorHandler(error, nodeEnv) ==
    LET statusCode ==
            CASE error.class = "ZodError" -> 400
              [] error.class = "PrismaClientKnownRequestError" ->
                    (CASE error.code = "P2002" -> 409
                       [] error.code = "P2025" -> 404
                       [] OTHER -> 400)
              [] error.class = "PrismaClientValidationError" -> 400
              [] error.class = "AppError" -> error.statusCode
              [] error.class = "Error" /\ error.name = "JsonWebTokenError" -> 401
              [] error.class = "Error" /\ error.name = "TokenExpiredError" -> 401
              [] OTHER -> 500
        message ==
            CASE error.class = "ZodError" -> "Validation failed"
              [] error.class = "PrismaClientKnownRequestError" ->
                    (CASE error.code = "P2002" ->
                             "A record with this information already exists"
                       [] error.code = "P2025" -> "Record not found"
                       [] OTHER -> "Database operation failed")
              [] error.class = "PrismaClientValidationError" -> "Invalid data provided"
              [] error.class = "AppError" -> error.message
              [] error.class = "Error" /\ error.name = "JsonWebTokenError" -> "Invalid token"
              [] error.class = "Error" /\ error.name = "TokenExpiredError" -> "Token expired"
              [] OTHER -> "Internal server error"
        errorDetails ==
            CASE error.class = "ZodError" -> Some([NoDetails EXCEPT !.issues = error.issues])
              [] error.class = "PrismaClientKnownRequestError" ->
                    Some([NoDetails EXCEPT !.code = error.code])
              [] OTHER -> Null
    IN  [status |-> statusCode,
         body |-> [success |-> FALSE,
                   message |-> message,
                   error |-> IF ~IsNull(errorDetails) THEN Val(errorDetails)
                             ELSE [NoDetails EXCEPT !.text = error.message],
                   stack |-> IF nodeEnv = Some("development") THEN Some(error.stack)
                             ELSE Null]]

\* next(error) is called while process.env.NODE_ENV has the value nodeEnv.
ReceiveError(p, errors, nodeEnvs) ==
    /\ calls[p].pc = "idle"
    /\ \E e \in errors, env \in nodeEnvs :
          calls' = [calls EXCEPT ![p] =
              [IdleCall EXCEPT !.route = "errorHandler", !.pc = "errorHandler",
                               !.data = Some([error |-> e, nodeEnv |-> env])]]
    /\ UNCHANGED <<envKey, now, issued, users, services, requests, feedback>>

\* errorHandler runs and sends its response.
ErrorHandlerResponds(p) ==
    /\ calls[p].pc = "errorHandler"
    /\ LET c == calls[p]
           r == errorHandler(Val(c.data).error, Val(c.data).nodeEnv)
       IN  calls' = [calls EXCEPT ![p] =
                [Finish(c, r.status) EXCEPT !.body = Some(r.body)]]
    /\ UNCHANGED <<envKey, now, issued, users, services, requests, feedback>>

NextErrorHandler ==
    \/ ReceiveError(1, ThrownErrors, NodeEnvs)
    \/ ErrorHandlerResponds(1)
    \/ CallEnds(1)

SpecErrorHandler == Init /\ [][NextErrorHandler]_vars

----------------------------------------------------------------------------
(* SpecProviderFeedback: feedback of two providers submitted, hidden and read, *)
(* with calls that do not overlap                                              *)

\* Completed requests of customers c1 and c2 in turn, every third one for
\* service s2 of provider p2 and the others for s1 of p1.
ReviewedRequests ==
    [i \in 1..MaxRated |->
        IF i % 3 = 0
        THEN [CompletedRow(IF i % 2 = 1 THEN "c1" ELSE "c2")
                 EXCEPT !.service_id = "s2", !.provider_id = "p2"]
        ELSE CompletedRow(IF i % 2 = 1 THEN "c1" ELSE "c2")]

InitProviderFeedback ==
    /\ envKey = Null
    /\ now = 0
    /\ issued = {}
    /\ users = InitUsers
    /\ services = InitServices
    /\ requests = ReviewedRequests
    /\ feedback = <<>>
    /\ calls = [p \in Procs |-> IdleCall]

\* A Feedback row stops being public. No route under src/ writes is_public;
\* the listing filters on it.
HideFeedback(i) ==
    /\ i \in 1..Len(feedback)
    /\ feedback[i].is_public
    /\ feedback' = [feedback EXCEPT ![i].is_public = FALSE]
    /\ UNCHANGED <<envKey, now, issued, users, services, requests, calls>>

\* The requests are reviewed in the order of their ids: a submission names the
\* first request without a review, or the last one reviewed.
NextToReview == {Len(feedback), Len(feedback) + 1} \cap (1..MaxRated)

NextProviderFeedback ==
    \/ NoCallInProgress
          /\ ReceivePostFeedbackFor(1, CustomerHeaders, NextToReview, {1, 2})
    \/ NoCallInProgress /\ ReceiveGetProviderFeedback(1, {"p1", "p2", "c1", "u0"})
    \/ NoCallInProgress /\ \E i \in 1..MaxRated : HideFeedback(i)
    \/ authenticateToken(1)
    \/ PostFeedbackFindRequest(1)
    \/ PostFeedbackFindExisting(1)
    \/ PostFeedbackCreate(1)
    \/ PostFeedbackFindMany(1)
    \/ PostFeedbackUserUpdate(1)
    \/ GetProviderFeedbackFindProvider(1)
    \/ GetProviderFeedbackFindMany(1)
    \/ CallEnds(1)

SpecProviderFeedback == InitProviderFeedback /\ [][NextProviderFeedback]_vars

----------------------------------------------------------------------------
(* SpecRatingInput: POST /feedback with ratings below 1, above 5 and between *)
(* two whole numbers, with calls that do not overlap                        *)

NextRatingInput ==
    \/ NoCallInProgress
          /\ ReceivePostFeedbackRating(1, CustomerHeaders, {1, 2}, {0, 4, 5}, {0, 5})
    \/ authenticateToken(1)
    \/ PostFeedbackFindRequest(1)
    \/ PostFeedbackFindExisting(1)
    \/ PostFeedbackCreate(1)
    \/ PostFeedbackFindMany(1)
    \/ PostFeedbackUserUpdate(1)
    \/ CallEnds(1)

SpecRatingInput == InitRating /\ [][NextRatingInput]_vars

----------------------------------------------------------------------------
(* SpecFeedbackFailure: POST /feedback with storage operations that can fail, *)
(* with calls that do not overlap                                            *)

NextFeedbackFailure ==
    \/ NoCallInProgress /\ ReceivePostFeedbackFor(1, CustomerHeaders, {1, 2}, {0, 2, 5})
    \/ authenticateToken(1)
    \/ PostFeedbackFindRequest(1)
    \/ PostFeedbackFindExisting(1)
    \/ PostFeedbackCreate(1)
    \/ PostFeedbackFindMany(1)
    \/ PostFeedbackUserUpdate(1)
    \/ PostFeedbackStorageFails(1)
    \/ CallEnds(1)

SpecFeedbackFailure == InitRating /\ [][NextFeedbackFailure]_vars

----------------------------------------------------------------------------
(* SpecIdentity: register, login, refresh and profile update, with the gate *)
(* and the transition matrix reading the tokens handed out                 *)

\* Bodies of PATCH /profile: a name, a name that is too short, and a name sent
\* along with an email and a role.
ProfileBodies ==
    {[name |-> Some("second name"), email |-> Null, role |-> Null],
     [name |-> Some("a"), email |-> Null, role |-> Null],
     [name |-> Some("second name"), email |-> Some("other@x"), role |-> Some("provider")]}

InitIdentity ==
    /\ envKey \in {Null, Some("k1")}
    /\ now = 0
    /\ issued = {}
    /\ users = [u \in UserIds |-> IF u \in {"c1", "p1"} THEN InitUsers[u] ELSE NoUser]
    /\ services = InitServices
    /\ requests = <<PendingRow>>
    /\ feedback = <<>>
    /\ calls = [p \in Procs |-> IdleCall]

NextIdentity ==
    \/ ReceiveRegister(1, {"new@x", EmailOf("c1")}, {"pw-new"}, {"customer", "provider"})
    \/ PostRegisterFindUser(1)
    \/ PostRegisterCreate(1)
    \/ ReceiveLogin(1, {EmailOf("c1"), EmailOf("p1"), "new@x"}, {PasswordOf("c1"), "pw-new"})
    \/ PostLogin(1)
    \/ ReceiveRefresh(1, GateHeaders)
    \/ PostRefresh(1)
    \/ ReceivePatchProfile(1, GateHeaders, ProfileBodies)
    \/ PatchProfileUpdate(1)
    \/ ReceivePatchRequest(1, GateHeaders, {"accepted", "cancelled"})
    \/ PatchRequestFind(1)
    \/ PatchRequestUpdate(1)
    \/ authenticateToken(1)
    \/ CallEnds(1)
    \/ Tick({AccessTtl})
    \/ DeactivateUser("c1")

SpecIdentity == InitIdentity /\ [][NextIdentity]_vars

----------------------------------------------------------------------------
(* SpecScenario: customer c1, service s1 and its provider p1, from empty *)
(* tables, with calls that do not overlap                                *)

ScenarioHeaders == {Some(generateAccessToken(TokenUser(u), 0)) : u \in {"c1", "p1"}}

NextScenario ==
    \/ NoCallInProgress /\ ReceivePostRequests(1, ScenarioHeaders, {"s1"})
    \/ NoCallInProgress /\ ReceivePatchRequest(1, ScenarioHeaders, {"accepted", "completed"})
    \/ NoCallInProgress /\ ReceivePostFeedback(1, ScenarioHeaders, {4})
    \/ authenticateToken(1)
    \/ PostRequestsFindService(1)
    \/ PostRequestsFindExisting(1)
    \/ PostRequestsCreate(1)
    \/ PatchRequestFind(1)
    \/ PatchRequestUpdate(1)
    \/ PostFeedbackFindRequest(1)
    \/ PostFeedbackFindExisting(1)
    \/ PostFeedbackCreate(1)
    \/ PostFeedbackFindMany(1)
    \/ PostFeedbackUserUpdate(1)
    \/ CallEnds(1)

SpecScenario == Init /\ [][NextScenario]_vars

----------------------------------------------------------------------------
(* Claims about the request lifecycle, checked under Spec *)

SamePair(a, b) == a.service_id = b.service_id /\ a.customer_id = b.customer_id

\* C1: in every reachable state, for every (service, customer) pair at most one
\* ServiceRequest has its status in {pending, accepted}.
C1_AtMostOneOpenRequest ==
    \A i, j \in 1..Len(requests) :
        (i # j /\ SamePair(requests[i], requests[j]))
            => ~(requests[i].status \in {"pending", "accepted"}
                 /\ requests[j].status \in {"pending", "accepted"})

\* A transition call whose authenticated role excludes its target: a customer
\* asking for accepted, declined or completed, a provider asking for cancelled.
RoleExcludesTarget(c) ==
    /\ c.route = "PATCH /requests/:id"
    /\ ~IsNull(c.user)
    /\ \/ Val(c.user).role = "customer" /\ c.status \in {"accepted", "declined", "completed"}
       \/ Val(c.user).role = "provider" /\ c.status = "cancelled"

\* C2: a customer who asks for accepted, declined or completed, and a provider
\* who asks for cancelled, is answered 403 once the request is found, whatever
\* its current status, and no step of the call changes any stored request.
C2_RoleExcludedTargetForbidden ==
    [][\A p \in Procs :
          (RoleExcludesTarget(calls[p]) /\ calls'[p] # calls[p])
              => /\ requests' = requests
                 /\ calls'[p].pc # "update"
                 /\ calls'[p].res # 200
                 /\ (calls[p].pc = "findRequest" /\ calls[p].rid \in 1..Len(requests))
                        => (calls'[p].pc = "done" /\ calls'[p].res = 403)]_vars

\* C2 witness: the customer who owns a pending request asked for completed and
\* was answered 403.
C2_Witness ==
    \E p \in Procs :
        /\ calls[p].pc = "done" /\ calls[p].res = 403
        /\ RoleExcludesTarget(calls[p])
        /\ Val(calls[p].user).role = "customer" /\ calls[p].status = "completed"
        /\ calls[p].rid \in 1..Len(requests)
        /\ requests[calls[p].rid].customer_id = Val(calls[p].user).userId
        /\ requests[calls[p].rid].status = "pending"

\* C3: once a request's status is completed or cancelled, no step changes it.
C3_TerminalStatusesStay ==
    [][\A i \in 1..Len(requests) :
          requests[i].status \in {"completed", "cancelled"}
              => requests'[i].status = requests[i].status]_vars

\* The customer already has a request for the service in pending or accepted.
HasOpenRequest(sid, customerId) ==
    \E i \in 1..Len(requests) :
        /\ requests[i].service_id = sid /\ requests[i].customer_id = customerId
        /\ requests[i].status \in {"pending", "accepted"}

\* C9: with calls that do not overlap, POST /requests by an authenticated, active
\* customer for an existing active service answers 409 and creates nothing when
\* the customer has an open request for the service, and otherwise answers 201
\* and appends one pending request of that pair.
C9_CreateConflictOrCreated ==
    [][\A p \in Procs :
          LET c == calls[p] IN
          (/\ c.route = "POST /requests" /\ c.pc \notin {"idle", "done"}
           /\ calls'[p].pc = "done"
           /\ ~IsNull(c.user) /\ Val(c.user).role = "customer"
           /\ FindUser(Val(c.user).userId).is_active
           /\ c.sid \in ServiceIds /\ services[c.sid].is_active)
              => IF HasOpenRequest(c.sid, Val(c.user).userId)
                 THEN calls'[p].res = 409 /\ requests' = requests
                 ELSE /\ calls'[p].res = 201
                      /\ requests' = Append(requests,
                            [service_id |-> c.sid, customer_id |-> Val(c.user).userId,
                             provider_id |-> services[c.sid].provider_id,
                             status |-> "pending"])]_vars

\* C9 witness: the pair's first request was cancelled, a second one was then
\* created, and a third creation was answered 409.
C9_Witness ==
    \E p \in Procs :
        /\ calls[p].route = "POST /requests" /\ calls[p].pc = "done" /\ calls[p].res = 409
        /\ Len(requests) = 2
        /\ requests[1].status = "cancelled" /\ requests[2].status \in {"pending", "accepted"}
        /\ SamePair(requests[1], requests[2])
        /\ requests[2].service_id = calls[p].sid
        /\ requests[2].customer_id = Val(calls[p].user).userId

\* A transition call of a customer, for the target cancelled, on an existing
\* request that the customer owns.
OwnCancellation(c) ==
    /\ c.route = "PATCH /requests/:id"
    /\ ~IsNull(c.user) /\ Val(c.user).role = "customer"
    /\ c.status = "cancelled"
    /\ c.rid \in 1..Len(requests)
    /\ requests[c.rid].customer_id = Val(c.user).userId

\* C12: with calls that do not overlap, the cancellation by a customer of a
\* request they own goes on to the write, which sets cancelled and answers 200,
\* only when the current status is pending; for accepted, declined, completed
\* and cancelled it is answered 403 and the stored requests are unchanged.
C12_CancelOnlyPending ==
    [][\A p \in Procs :
          LET c == calls[p]
              d == calls'[p]
          IN  (OwnCancellation(c) /\ d # c)
              => /\ c.pc = "findRequest"
                    => /\ requests' = requests
                       /\ IF requests[c.rid].status = "pending"
                          THEN d.pc = "update"
                          ELSE d.pc = "done" /\ d.res = 403
                 /\ c.pc = "update"
                    => /\ requests[c.rid].status = "pending"
                       /\ requests' = [requests EXCEPT ![c.rid].status = "cancelled"]
                       /\ d.pc = "done" /\ d.res = 200]_vars

\* C12 witness: the customer asked to cancel an accepted request of theirs and
\* was answered 403; the request is still accepted.
C12_Witness ==
    \E p \in Procs :
        /\ OwnCancellation(calls[p])
        /\ calls[p].pc = "done" /\ calls[p].res = 403
        /\ requests[calls[p].rid].status = "accepted"

\* A transition call, on an existing request, of a caller who is neither the
\* request's provider with role provider nor its customer with role customer.
StrangerCall(c) ==
    /\ c.route = "PATCH /requests/:id"
    /\ ~IsNull(c.user)
    /\ c.rid \in 1..Len(requests)
    /\ ~(Val(c.user).role = "provider" /\ requests[c.rid].provider_id = Val(c.user).userId)
    /\ ~(Val(c.user).role = "customer" /\ requests[c.rid].customer_id = Val(c.user).userId)

\* C13: a caller who is neither the request's provider nor its customer is
\* answered 403 for every target status once the request is found; the call
\* never reaches the write and the stored requests are unchanged.
C13_StrangerForbidden ==
    [][\A p \in Procs :
          LET c == calls[p]
              d == calls'[p]
          IN  (StrangerCall(c) /\ d # c)
              => /\ requests' = requests
                 /\ d.pc # "update" /\ d.res # 200
                 /\ (c.pc = "findRequest" /\ c.status \in Statuses)
                        => (d.pc = "done" /\ d.res = 403)]_vars

\* C13 witness: provider p2 asked to accept a pending request of provider p1
\* and was answered 403; the request is still pending.
C13_Witness ==
    \E p \in Procs :
        /\ StrangerCall(calls[p])
        /\ calls[p].pc = "done" /\ calls[p].res = 403
        /\ Val(calls[p].user).userId = "p2" /\ calls[p].status = "accepted"
        /\ requests[calls[p].rid].provider_id = "p1"
        /\ requests[calls[p].rid].status = "pending"

\* C13 witness, second case: customer c2 asked to cancel a pending request of
\* customer c1 and was answered 403.
C13_WitnessCustomer ==
    \E p \in Procs :
        /\ StrangerCall(calls[p])
        /\ calls[p].pc = "done" /\ calls[p].res = 403
        /\ Val(calls[p].user).userId = "c2" /\ calls[p].status = "cancelled"
        /\ requests[calls[p].rid].customer_id = "c1"
        /\ requests[calls[p].rid].status = "pending"

\* C14: the existing-request check and the insert of POST /requests are two
\* storage operations: the check lets a call through whenever no open request
\* of the pair is stored at that moment, also while another call of the same
\* pair is between its check and its insert, and the insert always appends a
\* pending row and answers 201, whatever is stored by then. Two overlapping
\* calls of one customer for one active service can so both answer 201 and
\* leave two pending requests of the pair.
C14_CheckThenInsertNotAtomic ==
    [][\A p \in Procs :
          LET c == calls[p]
              d == calls'[p]
          IN  (c.route = "POST /requests" /\ d # c)
              => /\ c.pc = "findExisting"
                    => /\ requests' = requests
                       /\ IF HasOpenRequest(c.sid, Val(c.user).userId)
                          THEN d.pc = "done" /\ d.res = 409
                          ELSE d.pc = "create"
                 /\ c.pc = "create"
                    => /\ d.pc = "done" /\ d.res = 201
                       /\ requests' = Append(requests,
                             [service_id |-> c.sid, customer_id |-> Val(c.user).userId,
                              provider_id |-> services[c.sid].provider_id,
                              status |-> "pending"])]_vars

\* C14 witness: two calls of the same customer for the same service have both
\* answered 201, and two pending requests of the pair are stored.
C14_Witness ==
    \E p, q \in Procs :
        /\ p # q
        /\ calls[p].route = "POST /requests" /\ calls[q].route = "POST /requests"
        /\ calls[p].pc = "done" /\ calls[p].res = 201
        /\ calls[q].pc = "done" /\ calls[q].res = 201
        /\ calls[p].sid = calls[q].sid
        /\ Val(calls[p].user).userId = Val(calls[q].user).userId
        /\ Len(requests) = 2
        /\ SamePair(requests[1], requests[2])
        /\ requests[1].customer_id = Val(calls[p].user).userId
        /\ requests[1].service_id = calls[p].sid
        /\ requests[1].status = "pending" /\ requests[2].status = "pending"

\* C17: when a transition by the owning provider and the cancellation by the
\* owning customer of the same request overlap, the write of a cancellation
\* finds the stored status pending: a request whose provider transition has
\* been persisted never becomes cancelled.
C17_CancelWrittenOnPendingOnly ==
    [][\A p \in Procs :
          LET c == calls[p]
          IN  (/\ c.route = "PATCH /requests/:id" /\ c.pc = "update"
               /\ c.status = "cancelled" /\ calls'[p] # c)
              => requests[c.rid].status = "pending"]_vars

\* A transition call of a provider, for the target completed, on an existing
\* request of theirs whose status is declined.
CompletionOfDeclined(c) ==
    /\ c.route = "PATCH /requests/:id"
    /\ ~IsNull(c.user) /\ Val(c.user).role = "provider"
    /\ c.status = "completed"
    /\ c.rid \in 1..Len(requests)
    /\ requests[c.rid].provider_id = Val(c.user).userId
    /\ requests[c.rid].status = "declined"

\* C26: the provider who owns a declined request can transition it to
\* completed: the permission check lets the call through to the write, which
\* stores completed and answers 200.
C26_DeclinedCanBeCompleted ==
    [][\A p \in Procs :
          LET c == calls[p]
              d == calls'[p]
          IN  (CompletionOfDeclined(c) /\ d # c)
              => /\ c.pc = "auth" => d.pc = "findRequest"
                 /\ c.pc = "findRequest" => d.pc = "update" /\ requests' = requests
                 /\ c.pc = "update"
                    => /\ requests' = [requests EXCEPT ![c.rid].status = "completed"]
                       /\ d.pc = "done" /\ d.res = 200]_vars

\* C26 witness: the owner's call for completed has passed the permission check
\* and stands before its write, and the request is declined.
C26_Witness ==
    \E p \in Procs : CompletionOfDeclined(calls[p]) /\ calls[p].pc = "update"

\* C30: no PATCH /requests/:id call with target pending reaches the write: on
\* an existing request it is answered 403, whoever calls and whatever the
\* current status; and no step gives the status pending to a request that has
\* another status.
C30_NeverBackToPending ==
    [][/\ \A p \in Procs :
            LET c == calls[p]
                d == calls'[p]
            IN  (/\ c.route = "PATCH /requests/:id" /\ c.status = "pending"
                 /\ d # c /\ c.pc \notin {"idle", "done"})
                => /\ c.pc # "update" /\ d.pc # "update"
                   /\ requests' = requests
                   /\ d.pc = "done" => d.res # 200
                   /\ (c.pc = "findRequest" /\ c.rid \in 1..Len(requests))
                      => d.pc = "done" /\ d.res = 403
       /\ \A i \in 1..Len(requests) :
            requests[i].status # "pending" => requests'[i].status # "pending"]_vars

\* C30 witness: the provider who owns an accepted request asked for pending
\* and was answered 403; the request is still accepted.
C30_Witness ==
    \E p \in Procs :
        /\ calls[p].route = "PATCH /requests/:id" /\ calls[p].status = "pending"
        /\ calls[p].pc = "done" /\ calls[p].res = 403
        /\ calls[p].rid \in 1..Len(requests)
        /\ Val(calls[p].user).role = "provider"
        /\ requests[calls[p].rid].provider_id = Val(calls[p].user).userId
        /\ requests[calls[p].rid].status = "accepted"

\* The customer who owns a pending request asked for pending and was answered 403.
C30_WitnessCustomer ==
    \E p \in Procs :
        /\ calls[p].route = "PATCH /requests/:id" /\ calls[p].status = "pending"
        /\ calls[p].pc = "done" /\ calls[p].res = 403
        /\ calls[p].rid \in 1..Len(requests)
        /\ requests[calls[p].rid].customer_id = Val(calls[p].user).userId
        /\ requests[calls[p].rid].status = "pending"

----------------------------------------------------------------------------
(* Claims about identities, checked under SpecIdentity *)

\* The claims are those of a stored user: the row exists and holds the email
\* and role the claims carry.
StoredIdentity(claims) ==
    /\ claims.userId \in UserIds
    /\ users[claims.userId].exists
    /\ users[claims.userId].email = claims.email
    /\ users[claims.userId].role = claims.role

\* The tokens in circulation: both tokens of every pair handed out, and the
\* token of someone who does not know the server's secrets.
TokensInCirculation ==
    {pr.accessToken : pr \in issued} \cup {pr.refreshToken : pr \in issued}
        \cup {ForgedToken}

\* C32: in every reachable state every token that verifyAccessToken or
\* verifyRefreshToken accepts carries the userId, email and role stored for
\* that user, and the identity a call in progress acts under (the one
\* requireRole and the transition matrix read) is the stored one.
C32_AcceptedTokensCarryStoredIdentity ==
    /\ \A tok \in TokensInCirculation :
          /\ ~IsNull(verifyAccessToken(tok, now))
                => StoredIdentity(Val(verifyAccessToken(tok, now)))
          /\ ~IsNull(verifyRefreshToken(tok, now))
                => StoredIdentity(Val(verifyRefreshToken(tok, now)))
    /\ \A p \in Procs :
          (calls[p].pc # "idle" /\ ~IsNull(calls[p].user))
              => StoredIdentity(Val(calls[p].user))

\* C32 witness: a user who registered as a customer sent PATCH /profile with a
\* name, another email and the role provider under the token handed out to
\* them, and was answered 200; the name is written, the token is still
\* accepted and the row still holds the email and role of the token.
C32_Witness ==
    \E p \in Procs, pr \in issued :
        LET c == calls[p]
            id == pr.accessToken.userId
        IN  /\ c.route = "PATCH /profile" /\ c.pc = "done" /\ c.res = 200
            /\ c.header = Some(pr.accessToken)
            /\ Val(c.data).role = Some("provider")
            /\ id \in {"c2", "p2"}
            /\ pr.accessToken.role = "customer"
            /\ ~IsNull(verifyAccessToken(pr.accessToken, now))
            /\ users[id].name = "second name"
            /\ users[id].role = "customer" /\ users[id].email = "new@x"

----------------------------------------------------------------------------
(* Claims about the error handler, checked under SpecErrorHandler *)

\* The error is of none of the kinds errorHandler recognises.
Unrecognised(e) ==
    /\ e.class = "Error"
    /\ e.name \notin {"JsonWebTokenError", "TokenExpiredError"}

\* A field of the body carries the original message.
CarriesMessage(body, e) ==
    e.message # "" /\ (body.message = e.message \/ body.error.text = e.message)

\* C28: for an error of none of the recognised kinds errorHandler answers 500
\* with success false and the generic message, and when NODE_ENV is not
\* development no field of the body holds the error's message or its stack.
C28_UnrecognisedErrorIsOpaque ==
    \A p \in Procs :
        LET c == calls[p]
        IN  (/\ c.route = "errorHandler" /\ c.pc = "done"
             /\ Unrecognised(Val(c.data).error))
            => /\ c.res = 500
               /\ Val(c.body).success = FALSE
               /\ Val(c.body).message = "Internal server error"
               /\ Val(c.data).nodeEnv # Some("development")
                  => /\ ~CarriesMessage(Val(c.body), Val(c.data).error)
                     /\ IsNull(Val(c.body).stack)

----------------------------------------------------------------------------
(* Claims about services, checked under SpecServices *)

ServiceRoutes == {"PATCH /services/:id", "DELETE /services/:id"}

\* The service exists, is active and belongs to the provider.
OwnedAndActive(sid, providerId) ==
    /\ sid \in DOMAIN services
    /\ services[sid].exists /\ services[sid].is_active
    /\ services[sid].provider_id = providerId

\* C22: with calls that do not overlap, PATCH /services/:id and
\* DELETE /services/:id change a service only when the caller is the provider
\* who owns it and it is active, and then only by the body's fields or by
\* clearing is_active; for another provider, a missing service and a
\* soft-deleted service the lookup answers 404 and the services are unchanged.
C22_ServiceChangedByOwnerOnly ==
    [][\A p \in Procs :
          LET c == calls[p]
              d == calls'[p]
          IN  (c.route \in ServiceRoutes /\ c.pc \notin {"idle", "done"} /\ d # c)
              => /\ (c.pc \in {"psFind", "dsFind"} /\ ~OwnedAndActive(c.sid, Val(c.user).userId))
                        => (d.pc = "done" /\ d.res = 404)
                 /\ services' # services
                        => /\ OwnedAndActive(c.sid, Val(c.user).userId)
                           /\ d.pc = "done" /\ d.res = 200
                           /\ \A s \in DOMAIN services \ {c.sid} : services'[s] = services[s]
                           /\ services'[c.sid].provider_id = services[c.sid].provider_id
                           /\ services'[c.sid].exists
                           /\ c.route = "DELETE /services/:id"
                                 => services'[c.sid] = [services[c.sid] EXCEPT !.is_active = FALSE]
                           /\ c.route = "PATCH /services/:id"
                                 => services'[c.sid].is_active]_vars

\* C22 witness: the owner soft-deleted service s1 and was answered 200; then
\* the owner patched it and was answered 404.
C22_Witness ==
    \E p \in Procs :
        /\ calls[p].route = "PATCH /services/:id"
        /\ calls[p].pc = "done" /\ calls[p].res = 404
        /\ calls[p].sid = "s1" /\ Val(calls[p].user).userId = "p1"
        /\ services["s1"].exists /\ ~services["s1"].is_active
        /\ services["s1"].title = "first title"

\* C22 witness, second case: provider p2 asked to delete the active service
\* s1 of provider p1 and was answered 404.
C22_WitnessOtherProvider ==
    \E p \in Procs :
        /\ calls[p].route = "DELETE /services/:id"
        /\ calls[p].pc = "done" /\ calls[p].res = 404
        /\ calls[p].sid = "s1" /\ Val(calls[p].user).userId = "p2"
        /\ services["s1"].is_active

\* C23: POST /requests for a service id that names no service or a
\* soft-deleted service answers 404 and creates no request; with calls that do
\* not overlap, every request is created for a service that is active.
C23_NoRequestForInactiveService ==
    [][/\ \A p \in Procs :
            LET c == calls[p]
                d == calls'[p]
            IN  (/\ c.route = "POST /requests" /\ c.pc \notin {"idle", "auth", "done"} /\ d # c
                 /\ ~(c.sid \in DOMAIN services /\ services[c.sid].exists
                                                /\ services[c.sid].is_active))
                => /\ d.pc = "done" /\ d.res = 404
                   /\ requests' = requests
       /\ Len(requests') > Len(requests)
            => LET new == requests'[Len(requests')]
               IN  /\ new.service_id \in DOMAIN services
                   /\ services[new.service_id].exists
                   /\ services[new.service_id].is_active]_vars

\* C23 witness: a customer asked for the soft-deleted service s1 and was
\* answered 404; no request of the service is stored.
C23_Witness ==
    \E p \in Procs :
        /\ calls[p].route = "POST /requests"
        /\ calls[p].pc = "done" /\ calls[p].res = 404
        /\ calls[p].sid = "s1"
        /\ services["s1"].exists /\ ~services["s1"].is_active
        /\ requests = <<>>

\* C27: every request is created with status pending and with the provider_id
\* of its service, and no step changes the provider_id of a request or of a
\* service: in every state a request's provider_id is that of its service.
C27_ProviderIsServiceOwner ==
    [][/\ \A i \in 1..Len(requests') :
            /\ requests'[i].service_id \in DOMAIN services'
            /\ requests'[i].provider_id = services'[requests'[i].service_id].provider_id
       /\ \A i \in 1..Len(requests) :
            /\ Len(requests') >= Len(requests)
            /\ requests'[i].provider_id = requests[i].provider_id
            /\ requests'[i].service_id = requests[i].service_id
       /\ \A s \in DOMAIN services : services'[s].provider_id = services[s].provider_id
       /\ \A i \in 1..Len(requests') : i > Len(requests) => requests'[i].status = "pending"]_vars

\* C27 witness: service s1 was patched after a request for it was made and
\* accepted; the request still names the owner of the service.
C27_Witness ==
    /\ Len(requests) >= 1
    /\ requests[1].service_id = "s1" /\ requests[1].status = "accepted"
    /\ services["s1"].title = "new title" /\ services["s1"].category_id = "cat2"
    /\ requests[1].provider_id = services["s1"].provider_id
    /\ requests[1].provider_id = "p1"

----------------------------------------------------------------------------
(* Claims about feedback, checked under SpecFeedback and SpecFeedbackRace *)

\* C4: in every reachable state every Feedback row refers to a ServiceRequest
\* whose current status is completed.
C4_FeedbackOnlyOnCompleted ==
    \A i \in 1..Len(feedback) :
        /\ feedback[i].service_request_id \in 1..Len(requests)
        /\ requests[feedback[i].service_request_id].status = "completed"

FeedbackRowsFor(rid) == {i \in 1..Len(feedback) : feedback[i].service_request_id = rid}

\* C5: under any interleaving of POST /feedback calls, each ServiceRequest has
\* at most one Feedback row.
C5_AtMostOneFeedbackPerRequest ==
    \A rid \in RequestIds : Cardinality(FeedbackRowsFor(rid)) <= 1

\* C5 witness: two calls for the same request overlapped, both passed the
\* existence check, one inserted the row and the other's insert was refused.
C5_Witness ==
    \E p, q \in Procs :
        /\ p # q
        /\ calls[p].route = "POST /feedback" /\ calls[q].route = "POST /feedback"
        /\ calls[p].rid = calls[q].rid
        /\ calls[p].pc = "done" /\ calls[p].res = 500
        /\ calls[q].pc = "done" /\ calls[q].res = 201
        /\ Cardinality(FeedbackRowsFor(calls[p].rid)) = 1

\* The request exists, belongs to the customer and is completed.
EligibleForFeedback(rid, customerId) ==
    /\ rid \in 1..Len(requests)
    /\ requests[rid].customer_id = customerId
    /\ requests[rid].status = "completed"

\* A POST /feedback call that the gate and the body schema let through.
AdmittedFeedbackCall(c) ==
    /\ c.route = "POST /feedback"
    /\ ~IsNull(c.user) /\ Val(c.user).role = "customer"
    /\ FindUser(Val(c.user).userId).is_active
    /\ c.rating \in 1..5

\* C10: with calls that do not overlap, POST /feedback by an admitted customer
\* answers 404 and creates nothing when the request is missing, not the caller's
\* or not completed; answers 409 and creates nothing when a Feedback row for the
\* request exists; and otherwise inserts exactly one row and answers 201.
C10_FeedbackOutcome ==
    [][\A p \in Procs :
          LET c == calls[p]
              d == calls'[p]
              uid == Val(c.user).userId
          IN  (AdmittedFeedbackCall(c) /\ d # c /\ c.pc \notin {"idle", "done"})
              => IF c.pc \in {"auth", "fbFindRequest", "fbFindExisting", "fbCreate"}
                 THEN \* before the insert: the tables are as the call found them
                      IF ~EligibleForFeedback(c.rid, uid)
                      THEN /\ feedback' = feedback /\ users' = users
                           /\ d.pc \in {"fbFindRequest", "done"}
                           /\ d.pc = "done" => d.res = 404
                      ELSE IF FeedbackRowsFor(c.rid) # {}
                      THEN /\ feedback' = feedback /\ users' = users
                           /\ d.pc \in {"fbFindRequest", "fbFindExisting", "done"}
                           /\ d.pc = "done" => d.res = 409
                      ELSE /\ d.pc # "done"
                           /\ IF c.pc = "fbCreate"
                              THEN /\ d.pc = "fbFindMany"
                                   /\ feedback' = Append(feedback,
                                         [service_request_id |-> c.rid, customer_id |-> uid,
                                          provider_id |-> requests[c.rid].provider_id,
                                          rating |-> c.rating, is_public |-> TRUE])
                              ELSE feedback' = feedback
                 ELSE \* after the insert: no further row, and the answer is 201
                      /\ feedback' = feedback
                      /\ d.pc = "done" => d.res = 201]_vars

\* C10 witness: a second submission for a request that already has its one
\* Feedback row was answered 409.
C10_Witness ==
    \E p \in Procs :
        /\ AdmittedFeedbackCall(calls[p])
        /\ calls[p].pc = "done" /\ calls[p].res = 409
        /\ Cardinality(FeedbackRowsFor(calls[p].rid)) = 1
        /\ EligibleForFeedback(calls[p].rid, Val(calls[p].user).userId)

\* C15: of overlapping POST /feedback calls for the same completed request by
\* its customer, one is answered 201 and every other one 409: no such call is
\* answered with another status, and no two of them are answered 201.
C15_DuplicateAnsweredConflict ==
    \A p \in Procs :
        (/\ AdmittedFeedbackCall(calls[p]) /\ calls[p].pc = "done"
         /\ EligibleForFeedback(calls[p].rid, Val(calls[p].user).userId))
            => /\ calls[p].res \in {201, 409}
               /\ \A q \in Procs \ {p} :
                     (/\ calls[q].route = "POST /feedback" /\ calls[q].pc = "done"
                      /\ calls[q].rid = calls[p].rid)
                        => ~(calls[p].res = 201 /\ calls[q].res = 201)

\* r, in tenths, is a tenth nearest to sum / n: | 10 * sum / n - r | <= 1/2.
NearestTenth(r, sum, n) ==
    /\ n > 0
    /\ 2 * n * r - 20 * sum >= 0 - n
    /\ 2 * n * r - 20 * sum <= n

\* The stored rating of the provider is the mean of the ratings of all its
\* Feedback rows, rounded to one decimal.
RatingIsRoundedMean(providerId) ==
    NearestTenth(users[providerId].rating,
                 SumRatings(feedback, providerId, 1), CountRatings(feedback, providerId))

\* C16: whenever no POST /feedback call is in progress, every provider with at
\* least one Feedback row has a stored rating equal to the mean of the ratings
\* of all its Feedback rows rounded to one decimal, also after submissions for
\* different requests of the provider that overlapped.
C16_RatingIsMeanWhenQuiet ==
    (\A p \in Procs : calls[p].route = "POST /feedback" => calls[p].pc \in {"idle", "done"})
        => \A u \in Providers :
              CountRatings(feedback, u) > 0 => RatingIsRoundedMean(u)

\* C11: with submissions that do not overlap, when a POST /feedback call has
\* answered 201 the stored rating of the request's provider is the mean of the
\* ratings of all Feedback rows of that provider, the new one included, rounded
\* to one decimal.
C11_RatingIsMeanAfterCreated ==
    \A p \in Procs :
        (calls[p].route = "POST /feedback" /\ calls[p].pc = "done" /\ calls[p].res = 201)
            => /\ \E i \in 1..Len(feedback) : feedback[i].service_request_id = calls[p].rid
               /\ RatingIsRoundedMean(requests[calls[p].rid].provider_id)

\* C11 witness: the third submission for the provider was answered 201 and the
\* mean of the three ratings is not a whole number of tenths.
C11_Witness ==
    \E p \in Procs :
        /\ calls[p].route = "POST /feedback" /\ calls[p].pc = "done" /\ calls[p].res = 201
        /\ CountRatings(feedback, "p1") = 3
        /\ feedback[3].service_request_id = calls[p].rid
        /\ (10 * SumRatings(feedback, "p1", 1)) % 3 # 0
        /\ users["p1"].rating = 17

\* The call c was sent with the access token of user u.
SentBy(c, u) == c.header = Some(generateAccessToken(TokenUser(u), 0))

\* The one request of the scenario: c1's request for s1 of provider p1.
ScenarioRequest(status) ==
    [service_id |-> "s1", customer_id |-> "c1", provider_id |-> "p1", status |-> status]

ScenarioFeedback ==
    [service_request_id |-> 1, customer_id |-> "c1", provider_id |-> "p1",
     rating |-> 4, is_public |-> TRUE]

\* C24: from empty tables, c1's request for s1 is answered 201 and stored
\* pending; p1's transition of it to accepted and then to completed is answered
\* 200 each time; c1's feedback with rating 4 is answered 201 and leaves p1's
\* stored rating at 4.0; c1's second feedback for the request is answered 409
\* and adds no Feedback row.
C24_Scenario ==
    [][LET c == calls[1]
           d == calls'[1]
       IN  (d # c /\ c.pc \notin {"idle", "done"})
           => /\ (/\ c.route = "POST /requests" /\ SentBy(c, "c1") /\ c.sid = "s1"
                   /\ requests = <<>> /\ feedback = <<>>)
                  => IF d.pc = "done"
                     THEN d.res = 201 /\ requests' = <<ScenarioRequest("pending")>>
                     ELSE requests' = requests
              /\ (/\ c.route = "PATCH /requests/:id" /\ SentBy(c, "p1") /\ c.rid = 1
                   /\ requests = <<ScenarioRequest("pending")>> /\ c.status = "accepted")
                  => IF d.pc = "done"
                     THEN d.res = 200 /\ requests' = <<ScenarioRequest("accepted")>>
                     ELSE requests' = requests
              /\ (/\ c.route = "PATCH /requests/:id" /\ SentBy(c, "p1") /\ c.rid = 1
                   /\ requests = <<ScenarioRequest("accepted")>> /\ c.status = "completed")
                  => IF d.pc = "done"
                     THEN d.res = 200 /\ requests' = <<ScenarioRequest("completed")>>
                     ELSE requests' = requests
              /\ (/\ c.route = "POST /feedback" /\ SentBy(c, "c1") /\ c.rid = 1
                   /\ c.rating = 4 /\ requests = <<ScenarioRequest("completed")>>)
                  => IF feedback = <<>>
                     THEN \* the first submission, up to its insert
                          /\ d.pc # "done"
                          /\ feedback' = IF c.pc = "fbCreate" THEN <<ScenarioFeedback>>
                                                              ELSE feedback
                     ELSE IF c.pc \in {"fbFindMany", "fbUserUpdate"}
                     THEN \* the first submission, after its insert
                          /\ feedback' = feedback /\ feedback = <<ScenarioFeedback>>
                          /\ d.pc = "done" => d.res = 201 /\ users'["p1"].rating = 40
                     ELSE \* the second submission
                          /\ feedback' = feedback /\ users' = users
                          /\ d.pc \in {"fbFindRequest", "fbFindExisting", "done"}
                          /\ d.pc = "done" => d.res = 409]_vars

\* C24 witness: the scenario has run to its end: the second feedback for the
\* completed request was answered 409, one Feedback row with rating 4 exists and
\* p1's stored rating is 4.0.
C24_Witness ==
    /\ calls[1].route = "POST /feedback" /\ SentBy(calls[1], "c1")
    /\ calls[1].rid = 1 /\ calls[1].rating = 4
    /\ calls[1].pc = "done" /\ calls[1].res = 409
    /\ requests = <<ScenarioRequest("completed")>>
    /\ feedback = <<ScenarioFeedback>>
    /\ users["p1"].rating = 40

\* C29: a POST /feedback of a customer for a completed request of theirs that
\* has no feedback, with a rating that is not a whole number from 1 to 5, is
\* answered 400; and every stored Feedback row has a rating in 1..5.
C29_OnlyWholeRatingsAccepted ==
    /\ \A p \in Procs :
          LET c == calls[p]
          IN  (/\ c.route = "POST /feedback" /\ c.pc = "done" /\ ~IsNull(c.user)
               /\ EligibleForFeedback(c.rid, Val(c.user).userId)
               /\ FeedbackRowsFor(c.rid) = {}
               /\ RatingTenths(c) \notin {10 * n : n \in 1..5})
              => c.res = 400
    /\ \A i \in 1..Len(feedback) : feedback[i].rating \in 1..5

\* C31: a POST /feedback call that answers with another status than 201 has
\* left the Feedback rows and every User.rating as they were before it: the
\* step that sends the answer changes neither table, and the call has not
\* inserted its row before.
C31_FailedCallChangesNothing ==
    [][\A p \in Procs :
          LET c == calls[p]
              d == calls'[p]
          IN  (/\ c.route = "POST /feedback" /\ d # c
               /\ d.pc = "done" /\ d.res # 201)
              => /\ feedback' = feedback /\ users' = users
                 /\ c.pc \notin {"fbFindMany", "fbUserUpdate"}]_vars

\* The places in the table of the provider's Feedback rows marked public.
PublicRowsOf(providerId) ==
    {i \in 1..Len(feedback) : feedback[i].provider_id = providerId /\ feedback[i].is_public}

\* C25: GET /feedback/provider/:id answers 404 when the id is not a user with
\* role provider; otherwise it returns exactly the provider's public Feedback
\* rows, newest first, total_reviews is their number and average_rating the mean
\* of their ratings rounded to one decimal, 0 when there are none, whatever
\* User.rating holds.
C25_ProviderFeedbackListing ==
    \A p \in Procs :
        LET c == calls[p]
        IN  (c.route = "GET /feedback/provider/:id" /\ c.pc = "done")
            => LET id == Val(c.data).id
               IN  IF ~(id \in UserIds /\ users[id].exists /\ users[id].role = "provider")
                   THEN c.res = 404 /\ IsNull(c.body)
                   ELSE /\ c.res = 200
                        /\ LET b == Val(c.body)
                               rows == b.feedback
                               n == Len(rows)
                           IN  /\ n = Cardinality(PublicRowsOf(id))
                               /\ \A k \in 1..n :
                                     \E i \in PublicRowsOf(id) : feedback[i] = rows[k]
                               /\ \A k, l \in 1..n :
                                     k < l => \E i, j \in PublicRowsOf(id) :
                                                 /\ i > j
                                                 /\ feedback[i] = rows[k]
                                                 /\ feedback[j] = rows[l]
                               /\ b.total_reviews = n
                               /\ IF n = 0 THEN b.average_rating = 0
                                  ELSE NearestTenth(b.average_rating,
                                                    SumRatings(rows, id, 1), n)

\* C25 witness: p1 has three Feedback rows, one of them hidden, and p2 has one;
\* the listing of p1 returned the two public rows, and their average is not the
\* rating stored for p1.
C25_Witness ==
    \E p \in Procs :
        /\ calls[p].route = "GET /feedback/provider/:id" /\ calls[p].pc = "done"
        /\ calls[p].res = 200 /\ Val(calls[p].data).id = "p1"
        /\ CountRatings(feedback, "p1") = 3 /\ CountRatings(feedback, "p2") = 1
        /\ Val(calls[p].body).total_reviews = 2
        /\ Val(calls[p].body).average_rating # users["p1"].rating

\* The listing was asked for an id that is a customer's and answered 404.
C25_WitnessNotProvider ==
    \E p \in Procs :
        /\ calls[p].route = "GET /feedback/provider/:id" /\ calls[p].pc = "done"
        /\ Val(calls[p].data).id = "c1" /\ calls[p].res = 404

----------------------------------------------------------------------------
(* Claims about tokens and the gate, checked under SpecToken and SpecGate *)

\* C6: for every secret configuration, the refresh token of an issued pair is
\* rejected by verifyAccessToken and its access token by verifyRefreshToken.
C6_CrossUseRejected ==
    \A pr \in issued :
        /\ IsNull(verifyAccessToken(pr.refreshToken, now))
        /\ IsNull(verifyRefreshToken(pr.accessToken, now))

\* The identities a token pair can be generated for.
Identities ==
    {[id |-> u, email |-> EmailOf(u), role |-> r] :
        u \in UserIds, r \in {"customer", "provider", "admin"}}

ClaimsOf(ident) == [userId |-> ident.id, email |-> ident.email, role |-> ident.role]

\* Secrets a token could have been signed with.
SigningKeys == {DefaultSecret, DefaultRefreshSecret, "k1", "not-the-secret"}

\* The token signed with another key.
SignedWith(token, k) == [token EXCEPT !.key = k]

\* A string that is not a JWT.
MalformedToken == [raw |-> "not.a.jwt"]

\* C18: for every identity and every issue time, before its expiry the access
\* token of generateTokenPair verifies under verifyAccessToken, and the refresh
\* token under verifyRefreshToken, to the claims userId, email and role of the
\* identity; an expired token, a token signed with another secret than the
\* verifying function's, and a malformed token yield null, not an exception.
C18_PairVerifiesToIdentity ==
    \A ident \in Identities, t \in Instants :
        t <= now =>
            LET pr == generateTokenPair(ident, t)
                a == pr.accessToken
                r == pr.refreshToken
            IN  /\ verifyAccessToken(a, now) =
                      IF now < a.exp THEN Some(ClaimsOf(ident)) ELSE Null
                /\ verifyRefreshToken(r, now) =
                      IF now < r.exp THEN Some(ClaimsOf(ident)) ELSE Null
                /\ \A k \in SigningKeys :
                      /\ k # JWT_SECRET => verifyAccessToken(SignedWith(a, k), now) = Null
                      /\ k # JWT_REFRESH_SECRET
                            => verifyRefreshToken(SignedWith(r, k), now) = Null
                /\ verifyAccessToken(MalformedToken, now) = Null
                /\ verifyRefreshToken(MalformedToken, now) = Null

\* C18 witness: a pair handed out at login, under a configured secret, verifies
\* to the identity it was issued to some time after its issue, while the
\* forged token is turned away.
C18_Witness ==
    \E pr \in issued :
        /\ envKey = Some("k1")
        /\ pr.accessToken.iat < now /\ now < pr.accessToken.exp
        /\ verifyAccessToken(pr.accessToken, now)
              = Some(ClaimsOf(TokenUser(pr.accessToken.userId)))
        /\ verifyRefreshToken(pr.refreshToken, now)
              = Some(ClaimsOf(TokenUser(pr.refreshToken.userId)))
        /\ verifyAccessToken(ForgedToken, now) = Null

\* C19: an access token is accepted by verifyAccessToken at every time less
\* than 900 seconds after its issue and rejected from then on; a refresh token
\* is accepted by verifyRefreshToken until 604800 seconds after its issue and
\* rejected from then on; expiresIn of generateTokenPair is 900.
C19_TokenLifetimes ==
    \A ident \in Identities, t \in Instants :
        t <= now =>
            LET pr == generateTokenPair(ident, t)
            IN  /\ IsNull(verifyAccessToken(pr.accessToken, now)) <=> now - t >= 900
                /\ IsNull(verifyRefreshToken(pr.refreshToken, now)) <=> now - t >= 604800
                /\ pr.expiresIn = 900

\* C19 witness: 604800 seconds after the first login and 603900 after the
\* second, the first pair's refresh token is rejected and the second's is
\* accepted, and both access tokens are rejected.
C19_Witness ==
    \E pr1, pr2 \in issued :
        /\ pr1.accessToken.iat = 0 /\ pr2.accessToken.iat = 900 /\ now = 604800
        /\ IsNull(verifyRefreshToken(pr1.refreshToken, now))
        /\ ~IsNull(verifyRefreshToken(pr2.refreshToken, now))
        /\ IsNull(verifyAccessToken(pr1.accessToken, now))
        /\ IsNull(verifyAccessToken(pr2.accessToken, now))
        /\ pr1.expiresIn = 900

\* C20: POST /auth/refresh with a token in its body answers 200 and hands out
\* a pair newly generated for the stored user exactly when the token passes
\* verifyRefreshToken and, when the user is looked up, the user the token names
\* exists and is active; a token that does not pass, a missing user and an
\* inactive user are answered 401 and no pair is handed out.
C20_RefreshOutcome ==
    [][\A p \in Procs :
          LET c == calls[p]
              d == calls'[p]
          IN  /\ (c.pc = "idle" /\ d.route = "POST /auth/refresh" /\ ~IsNull(d.header))
                    => /\ issued' = issued
                       /\ IF IsNull(verifyRefreshToken(Val(d.header), now))
                          THEN d.pc = "done" /\ d.res = 401
                          ELSE d.pc = "refreshFindUser"
              /\ (c.route = "POST /auth/refresh" /\ c.pc = "refreshFindUser" /\ d # c)
                    => LET uid == Val(c.header).userId
                       IN  /\ d.pc = "done"
                           /\ IF uid \in DOMAIN users /\ users[uid].exists /\ users[uid].is_active
                              THEN /\ d.res = 200
                                   /\ issued' = issued \cup
                                        {generateTokenPair(
                                            [id |-> uid, email |-> users[uid].email,
                                             role |-> users[uid].role], now)}
                              ELSE d.res = 401 /\ issued' = issued
              /\ (d.route = "POST /auth/refresh" /\ d.res = 200 /\ d # c)
                    => c.pc = "refreshFindUser"]_vars

\* C20 witness: a refresh answered 200 handed out a second pair, issued later
\* than the pair whose refresh token was presented.
C20_Witness ==
    \E p \in Procs, pr \in issued :
        /\ calls[p].route = "POST /auth/refresh"
        /\ calls[p].pc = "done" /\ calls[p].res = 200
        /\ \E old \in issued : old.refreshToken = Val(calls[p].header)
        /\ pr.accessToken.iat = now /\ pr.accessToken.iat > Val(calls[p].header).iat
        /\ pr.accessToken.userId = Val(calls[p].header).userId

\* C20 witness, second case: a refresh with a token that still passes
\* verifyRefreshToken was answered 401 because the user is no longer active.
C20_WitnessInactive ==
    \E p \in Procs :
        /\ calls[p].route = "POST /auth/refresh"
        /\ calls[p].pc = "done" /\ calls[p].res = 401
        /\ ~IsNull(verifyRefreshToken(Val(calls[p].header), now))
        /\ ~FindUser(Val(calls[p].header).userId).is_active

\* C21: no two User rows share an email, and a POST /auth/register call with
\* a valid body is answered 201 or 409: of two calls with the same email, also
\* when both passed the existing-user lookup before either inserted, one is
\* answered 201 and the other 409.
C21_RegisterCreatedOrConflict ==
    /\ \A u, v \in DOMAIN users :
          (u # v /\ users[u].exists /\ users[v].exists) => users[u].email # users[v].email
    /\ \A p \in Procs :
          (/\ calls[p].route = "POST /auth/register" /\ calls[p].pc = "done"
           /\ calls[p].email # "not-an-email" /\ calls[p].password = "pw-new"
           /\ Val(calls[p].data).role \in {"customer", "provider"})
              => /\ calls[p].res \in {201, 409}
                 /\ \A q \in Procs \ {p} :
                       (/\ calls[q].route = "POST /auth/register" /\ calls[q].pc = "done"
                        /\ calls[q].email = calls[p].email)
                          => ~(calls[p].res = 201 /\ calls[q].res = 201)

ProtectedRoutes == {"POST /requests", "PATCH /requests/:id", "POST /feedback"}

HandlerPcs ==
    {"findService", "findExisting", "create", "findRequest", "update",
     "fbFindRequest", "fbFindExisting", "fbCreate", "fbFindMany", "fbUserUpdate"}

Tables == <<users, services, requests, feedback>>

\* The account a verified call names exists and is active.
AccountUsable(c) ==
    /\ FindUser(Val(c.user).userId).exists
    /\ FindUser(Val(c.user).userId).is_active

\* C7: once the account a token was issued to is inactive or removed, the
\* user lookup of authenticateToken, for a call with that token, unexpired or
\* not, answers 401 and next is not called: no handler step runs and no table
\* changes.
C7_DeactivatedAccountRejected ==
    [][\A p \in Procs :
          LET c == calls[p]
              d == calls'[p]
          IN  /\ (c.pc = "idle" /\ d.route \in ProtectedRoutes)
                    => d.pc \in {"auth", "done"}
              /\ (c.pc = "auth" /\ d # c /\ ~AccountUsable(c))
                    => /\ d.pc = "done" /\ d.res = 401
                       /\ Tables' = Tables]_vars

\* C7 witness: a call with an issued access token that verifyAccessToken still
\* accepts was answered 401 because the account is no longer active.
C7_Witness ==
    \E p \in Procs :
        /\ calls[p].route \in ProtectedRoutes
        /\ calls[p].pc = "done" /\ calls[p].res = 401
        /\ ~IsNull(calls[p].header)
        /\ \E pr \in issued : pr.accessToken = Val(calls[p].header)
        /\ ~IsNull(verifyAccessToken(Val(calls[p].header), now))
        /\ FindUser(Val(calls[p].header).userId).exists
        /\ ~FindUser(Val(calls[p].header).userId).is_active

\* The roles an operation requires, when it requires any.
RequiresRoles(route) == route \in {"POST /requests", "POST /feedback"}
RequiredRoles(route) == {"customer"}

\* C8: a protected handler runs only for a call whose token verifyAccessToken
\* accepted, whose account exists and is active, and whose role is allowed; a
\* missing or unverifiable token is answered 401 and a role outside the allowed
\* set 403, authentication first, and the steps that do so change no table.
C8_GateBeforeHandler ==
    [][\A p \in Procs :
          LET c == calls[p]
              d == calls'[p]
          IN  /\ (c.pc = "idle" /\ d.route \in ProtectedRoutes)
                    => /\ Tables' = Tables
                       /\ IF IsNull(d.header) \/ IsNull(verifyAccessToken(Val(d.header), now))
                          THEN d.pc = "done" /\ d.res = 401
                          ELSE d.pc = "auth"
              /\ (c.pc = "auth" /\ d # c)
                    => /\ Tables' = Tables
                       /\ IF ~AccountUsable(c)
                          THEN d.pc = "done" /\ d.res = 401
                          ELSE IF RequiresRoles(c.route)
                                  /\ Val(c.user).role \notin RequiredRoles(c.route)
                          THEN d.pc = "done" /\ d.res = 403
                          ELSE d.pc \in HandlerPcs \/ (d.pc = "done" /\ d.res = 400)
              /\ (d.pc \in HandlerPcs /\ c.pc \notin HandlerPcs) => c.pc = "auth"]_vars

\* C8 witness: an active provider with an accepted token called the
\* customers-only POST /requests and was answered 403.
C8_Witness ==
    \E p \in Procs :
        /\ calls[p].route = "POST /requests"
        /\ calls[p].pc = "done" /\ calls[p].res = 403
        /\ ~IsNull(verifyAccessToken(Val(calls[p].header), now))
        /\ Val(calls[p].user).role = "provider"
        /\ AccountUsable(calls[p])

====
